---- MODULE Spec2Model ----
(***************************************************************************)
(* Hybrid ranking core of Spotal-BE: the embedding ranker (rag_service,     *)
(* optimized_rag_service, embedding_service), the source-selection policy  *)
(* and result cache of SmartHybridService, over a small relational store.  *)
(* Scores are fixed-point numbers in thousandths (Scale).                  *)
(***************************************************************************)
EXTENDS Integers, Sequences, FiniteSets, TLC

VARIABLES places, embeddings, summaries, saved, cache, now, last, upserts

vars == <<places, embeddings, summaries, saved, cache, now, last, upserts>>

---------------------------------------------------------------------------
(* Bounds of the model                                                     *)

MaxSaved == 11
MaxTopK == 4
MaxCalls == 2

---------------------------------------------------------------------------
(* Generic sequence helpers (Python list semantics)                        *)

Min(a, b) == IF a <= b THEN a ELSE b

Max(a, b) == IF a >= b THEN a ELSE b

\* s[:n] for n >= 0
Take(s, n) == SubSeq(s, 1, Min(n, Len(s)))

\* s[n:] for n >= 0
Drop(s, n) == SubSeq(s, n + 1, Len(s))

Range(s) == {s[i] : i \in 1..Len(s)}

RECURSIVE SumSeq(_)
SumSeq(s) == IF s = <<>> THEN 0 ELSE s[1] + SumSeq(Tail(s))

RECURSIVE Flatten(_)
Flatten(ss) == IF ss = <<>> THEN <<>> ELSE ss[1] \o Flatten(Tail(ss))

Reverse(s) == [i \in 1..Len(s) |-> s[Len(s) + 1 - i]]

\* a variant of the sort that orders ascending
InsertAscending(s, x) ==
    LET k == Cardinality({i \in 1..Len(s) : s[i][2] <= x[2]})
    IN SubSeq(s, 1, k) \o <<x>> \o SubSeq(s, k + 1, Len(s))

\* list.sort(key=lambda x: x[1], reverse=True): descending by the second
\* component, stable (equal keys keep their input order)
InsertDesc(s, x) ==
    LET k == Cardinality({i \in 1..Len(s) : s[i][2] >= x[2]})
    IN SubSeq(s, 1, k) \o <<x>> \o SubSeq(s, k + 1, Len(s))

RECURSIVE SortDesc(_)
SortDesc(s) ==
    IF s = <<>> THEN <<>>
    ELSE InsertDesc(SortDesc(SubSeq(s, 1, Len(s) - 1)), s[Len(s)])

\* position of the first item of s whose first component is x, 0 if none
PosOf(s, x) ==
    IF \E i \in 1..Len(s) : s[i][1] = x
    THEN CHOOSE i \in 1..Len(s) :
            s[i][1] = x /\ \A j \in 1..(i - 1) : s[j][1] # x
    ELSE 0

---------------------------------------------------------------------------
(* Domain values                                                           *)

\* fixed-point resolution of a score: 0.001
Scale == 10 * 100

NoUser == 0

NoLocation == "None"

\* Emotion rows in primary-key order
EmotionNames == <<"calm", "cozy", "quiet", "romantic", "tasty">>

AllEmotions == Range(EmotionNames)

Users == {1, 2}

\* query vectors the embedding provider may answer with
QueryVectors == {<<1, 0, 0, 0>>, <<0, 1, 0, 0>>}

Isqrt(n) == CHOOSE r \in 0..n : r * r <= n /\ (r + 1) * (r + 1) > n

Dot(a, b) == SumSeq([i \in 1..Min(Len(a), Len(b)) |-> a[i] * b[i]])

\* a text handed to the embedding provider: the caller's query plus the
\* preference suffixes appended by build_enhanced_query
Text(base) == [base |-> base, emo |-> <<>>, loc |-> <<>>]

---------------------------------------------------------------------------
(* embedding_service.py                                                    *)

\* a variant of cosine_similarity without the guard on zero norms
cosine_without_zero_guard(vec_a, vec_b) ==
    IF Len(vec_a) = 0 \/ Len(vec_b) = 0 \/ Len(vec_a) # Len(vec_b)
    THEN 0
    ELSE IF Dot(vec_a, vec_a) = 0 \/ Dot(vec_b, vec_b) = 0
    THEN Scale
    ELSE (Dot(vec_a, vec_b) * Scale)
            \div (Isqrt(Dot(vec_a, vec_a)) * Isqrt(Dot(vec_b, vec_b)))

\* a variant of cosine_similarity that divides by the first norm only
cosine_by_first_norm(vec_a, vec_b) ==
    IF Len(vec_a) = 0 \/ Len(vec_b) = 0 \/ Len(vec_a) # Len(vec_b)
    THEN 0
    ELSE IF Dot(vec_a, vec_a) = 0 \/ Dot(vec_b, vec_b) = 0
    THEN 0
    ELSE (Dot(vec_a, vec_b) * Scale) \div Dot(vec_a, vec_a)

\* cosine_similarity(vec_a, vec_b), in thousandths
cosine_similarity(vec_a, vec_b) ==
    IF Len(vec_a) = 0 \/ Len(vec_b) = 0 \/ Len(vec_a) # Len(vec_b)
    THEN 0
    ELSE LET dot == Dot(vec_a, vec_b)
             norm_a == Dot(vec_a, vec_a)
             norm_b == Dot(vec_b, vec_b)
         IN IF norm_a = 0 \/ norm_b = 0
            THEN 0
            ELSE (dot * Scale) \div (Isqrt(norm_a) * Isqrt(norm_b))

\* embed_text(text, model): the provider's answer for a text. The provider
\* prov answers the caller's own query with prov.plain and a query rewritten
\* with preference suffixes with prov.personal.
embed_text(text, prov) ==
    IF text.emo = <<>> /\ text.loc = <<>> THEN prov.plain ELSE prov.personal

\* the n-th embed call of a request raises when the provider fails at call n
EmbedFails(prov, nCalls) == prov.failAt # 0 /\ prov.failAt <= nCalls

Providers ==
    [plain : QueryVectors, personal : QueryVectors, failAt : {0, 1, 2}]

---------------------------------------------------------------------------
(* rag_service.py: RAGRecommendationService                                *)

\* rows of SavedPlace.objects.filter(user=user), in primary-key order
SavedOf(user, Sv) == SelectSeq(Sv, LAMBDA r : r.user = user)

\* all Emotion rows in primary-key order: a sixth emotion is carried by the
\* places of the user-context specification only
EmotionRows == EmotionNames \o <<"lively">>

\* place.emotions.all(): the names of a place's emotions, in key order
EmotionSeqOf(place) == SelectSeq(EmotionRows, LAMBDA e : e \in place.emotions)

\* items of a defaultdict(int) tally of the keys in occ, in insertion order
Tally(occ) ==
    LET firsts == SelectSeq([i \in 1..Len(occ) |-> i],
                            LAMBDA i : \A j \in 1..(i - 1) : occ[j] # occ[i])
    IN [k \in 1..Len(firsts) |->
          <<occ[firsts[k]],
            Cardinality({j \in 1..Len(occ) : occ[j] = occ[firsts[k]]})>>]

EmotionCounts(user, Sv, P) ==
    LET rows == SavedOf(user, Sv)
    IN Tally(Flatten([i \in 1..Len(rows) |-> EmotionSeqOf(P[rows[i].shop])]))

LocationCounts(user, Sv, P) ==
    LET rows == SavedOf(user, Sv)
    IN Tally(Flatten([i \in 1..Len(rows) |->
                IF P[rows[i].shop].location # NoLocation
                THEN <<P[rows[i].shop].location>> ELSE <<>>]))

\* a variant of build_user_context without the [:5] and [:3] cuts
build_user_context_uncut(user, Sv, P) ==
    [saved_places |-> [i \in 1..Len(SavedOf(user, Sv)) |-> SavedOf(user, Sv)[i].shop],
     preferred_emotions |-> SortDesc(EmotionCounts(user, Sv, P)),
     location_preferences |-> SortDesc(LocationCounts(user, Sv, P))]

\* build_user_context(user)
build_user_context(user, Sv, P) ==
    [saved_places |-> [i \in 1..Len(SavedOf(user, Sv)) |-> SavedOf(user, Sv)[i].shop],
     preferred_emotions |-> Take(SortDesc(EmotionCounts(user, Sv, P)), 5),
     location_preferences |-> Take(SortDesc(LocationCounts(user, Sv, P)), 3)]

\* a variant of build_enhanced_query that appends the two suffixes even when
\* the user has no preference
build_enhanced_query_always(query, user_context) ==
    [base |-> query.base,
     emo |-> query.emo \o <<"emotions:">> \o
             [i \in 1..Min(3, Len(user_context.preferred_emotions)) |->
                user_context.preferred_emotions[i][1]],
     loc |-> query.loc \o <<"locations:">> \o
             [i \in 1..Min(2, Len(user_context.location_preferences)) |->
                user_context.location_preferences[i][1]]]

\* build_enhanced_query(query, user_context)
build_enhanced_query(query, user_context) ==
    [base |-> query.base,
     emo |-> query.emo \o
             [i \in 1..Min(3, Len(user_context.preferred_emotions)) |->
                user_context.preferred_emotions[i][1]],
     loc |-> query.loc \o
             [i \in 1..Min(2, Len(user_context.location_preferences)) |->
                user_context.location_preferences[i][1]]]

\* 0.1 * (count / 10) and 0.05 * (count / 10)
EmotionWeightMutant(count) == 100 * count

EmotionWeight(count) == (100 * count) \div 10

LocationWeight(count) == (50 * count) \div 10

\* the (kind, key, weight) increments hybrid_search adds to one candidate
Increments(place, ctx) ==
    SelectSeq([i \in 1..Len(ctx.preferred_emotions) |->
                 [kind |-> "emotion", key |-> ctx.preferred_emotions[i][1],
                  w |-> EmotionWeight(ctx.preferred_emotions[i][2])]],
              LAMBDA r : r.key \in place.emotions)
    \o
    SelectSeq([i \in 1..Len(ctx.location_preferences) |->
                 [kind |-> "location", key |-> ctx.location_preferences[i][1],
                  w |-> LocationWeight(ctx.location_preferences[i][2])]],
              LAMBDA r : place.location # NoLocation /\ r.key = place.location)

\* a variant of the filters that asks for every filtered emotion
FilterEmbeddingsAllOf(Em, P, emotion_filters, location_filters) ==
    SelectSeq(Em, LAMBDA e :
        /\ (emotion_filters # <<>> =>
               Range(emotion_filters) \subseteq P[e.place].emotions)
        /\ (location_filters # <<>> =>
               P[e.place].location \in Range(location_filters)))

\* PlaceEmbedding rows admitted by the emotion and location filters
FilterEmbeddings(Em, P, emotion_filters, location_filters) ==
    SelectSeq(Em, LAMBDA e :
        /\ (emotion_filters # <<>> =>
               P[e.place].emotions \cap Range(emotion_filters) # {})
        /\ (location_filters # <<>> =>
               P[e.place].location \in Range(location_filters)))

\* hybrid_search(query, user, emotion_filters, location_filters, top_k)
hybrid_search(query, user, emotion_filters, location_filters, top_k, P, Em, Sv, prov) ==
    LET nCalls == IF user # NoUser THEN 2 ELSE 1
        ctx == build_user_context(user, Sv, P)
        text == IF user # NoUser THEN build_enhanced_query(query, ctx) ELSE query
        query_vector == embed_text(text, prov)
        cands == FilterEmbeddings(Em, P, emotion_filters, location_filters)
        incs == [i \in 1..Len(cands) |->
                   IF user # NoUser THEN Increments(P[cands[i].place], ctx) ELSE <<>>]
        base == [i \in 1..Len(cands) |->
                   <<cands[i].place, cosine_similarity(query_vector, cands[i].vector)>>]
        results == [i \in 1..Len(cands) |->
                   <<cands[i].place,
                     base[i][2] + SumSeq([k \in 1..Len(incs[i]) |-> incs[i][k].w])>>]
    IN IF EmbedFails(prov, nCalls)
       THEN [outcome |-> "ProviderError", items |-> <<>>, base |-> <<>>,
             incs |-> <<>>, embedCalls |-> prov.failAt]
       ELSE [outcome |-> "ok", items |-> Take(SortDesc(results), top_k),
             base |-> base, incs |-> incs, embedCalls |-> nCalls]

\* search_places(query, top_k) of embedding_service.py
search_places(query, top_k, Em, prov) ==
    LET query_vec == embed_text(query, prov)
        scored == [i \in 1..Len(Em) |->
                     <<Em[i].place, cosine_similarity(query_vec, Em[i].vector)>>]
    IN IF EmbedFails(prov, 1)
       THEN [outcome |-> "ProviderError", items |-> <<>>, base |-> <<>>,
             incs |-> <<>>, embedCalls |-> 1]
       ELSE [outcome |-> "ok", items |-> Take(SortDesc(scored), top_k),
             base |-> scored, incs |-> <<>>, embedCalls |-> 1]

---------------------------------------------------------------------------
(* smart_hybrid_service.py: source-selection policy                        *)

\* str.lower() on the characters used in names and addresses
Lower(c) == CASE c = "S" -> "s" [] c = "Y" -> "y" [] OTHER -> c

LowerSeq(str) == [i \in 1..Len(str) |-> Lower(str[i])]

\* field__icontains=needle: case-insensitive substring
IContains(hay, needle) ==
    \E i \in 0..(Len(hay) - Len(needle)) :
        SubSeq(LowerSeq(hay), i + 1, i + Len(needle)) = LowerSeq(needle)

\* Place.objects.filter(Q(name__icontains=name) | Q(address__icontains=address)):
\* the shop ids, in primary-key order
KeywordPlaces(name, address, P) ==
    SelectSeq([i \in 1..Len(P) |-> i],
              LAMBDA i : IContains(P[i].name, name) \/ IContains(P[i].address, address))

\* a variant of _should_use_rag that needs more than 3 saves
should_use_rag_strict(name, address, user_id, P, Em, Sv) ==
    IF user_id # NoUser /\ Len(SavedOf(user_id, Sv)) > 3 THEN TRUE
    ELSE IF Len(KeywordPlaces(name, address, P)) >= 2 THEN TRUE
    ELSE Len(Em) >= 10

\* _should_use_rag(name, address, emotion_tags, user_id)
should_use_rag(name, address, user_id, P, Em, Sv) ==
    IF user_id # NoUser /\ Len(SavedOf(user_id, Sv)) >= 3 THEN TRUE
    ELSE IF Len(KeywordPlaces(name, address, P)) >= 2 THEN TRUE
    ELSE IF Len(Em) >= 10 THEN TRUE
    ELSE FALSE

---------------------------------------------------------------------------
(* django.core.cache: one keyed store per key prefix, entries expire       *)

OptCacheTimeout == 300

SmartCacheTimeout == 1800

EmptyCache ==
    [rag_search |-> <<>>, embedding |-> <<>>, user_weights |-> <<>>,
     enhanced_rec |-> <<>>, smart_rec |-> <<>>, emotions |-> <<>>,
     ultra_fast |-> <<>>]

\* a variant of cache.get that never expires an entry
CacheHitIgnoringExpiry(ns, key, t) == key \in DOMAIN ns

\* cache.get(key): the stored value while the entry has not expired
CacheHit(ns, key, t) == key \in DOMAIN ns /\ t < ns[key].expires

\* cache.set(key, value, timeout)
CacheSet(ns, key, value, t, timeout) ==
    [k \in DOMAIN ns \cup {key} |->
        IF k = key THEN [value |-> value, expires |-> t + timeout] ELSE ns[k]]

---------------------------------------------------------------------------
(* optimized_rag_service.py: OptimizedRAGService                           *)

\* names bound at module level of optimized_rag_service.py
OptimizedModuleNames ==
    {"List", "Dict", "Optional", "Tuple", "cache", "Prefetch", "time",
     "logging", "RAGRecommendationService", "Place", "PlaceEmbedding",
     "SavedPlace", "logger", "OptimizedRAGService", "OptimizedEnhancedService"}

\* _get_cached_embedding(text)
get_cached_embedding(text, C, t, prov) ==
    IF CacheHit(C.embedding, text, t) /\ C.embedding[text].value # <<>>
    THEN [outcome |-> "ok", vector |-> C.embedding[text].value, cache |-> C,
          embedCalls |-> 0]
    ELSE IF "embed_text" \notin OptimizedModuleNames
    THEN [outcome |-> "NameError", vector |-> <<>>, cache |-> C, embedCalls |-> 0]
    ELSE IF EmbedFails(prov, 1)
    THEN [outcome |-> "ProviderError", vector |-> <<>>, cache |-> C, embedCalls |-> 1]
    ELSE [outcome |-> "ok", vector |-> embed_text(text, prov),
          cache |-> [C EXCEPT !.embedding =
                        CacheSet(@, text, embed_text(text, prov), t,
                                 OptCacheTimeout * 2)],
          embedCalls |-> 1]

\* a similarity that is not a number (0/0)
NaN == 1000 * Scale

\* np.argsort(keys): indices by ascending key, NaN last, equal keys in input
\* order
RECURSIVE ArgsortAsc(_)
ArgsortAsc(keys) ==
    IF keys = <<>> THEN <<>>
    ELSE LET n == Len(keys)
             rest == ArgsortAsc(SubSeq(keys, 1, n - 1))
             k == Cardinality({j \in 1..Len(rest) : keys[rest[j]] <= keys[n]})
         IN SubSeq(rest, 1, k) \o <<n>> \o SubSeq(rest, k + 1, Len(rest))

\* _batch_similarity_calculation(query_vector, embeddings_query, top_k)
batch_similarity_calculation(query_vector, embs, top_k) ==
    LET n == Len(embs)
        ragged == \E i \in 1..n : Len(embs[i].vector) # Len(embs[1].vector)
        mismatch == Len(embs[1].vector) # Len(query_vector)
        similarities == [i \in 1..n |->
            LET norm_p == Dot(embs[i].vector, embs[i].vector)
                norm_q == Dot(query_vector, query_vector)
            IN IF norm_p = 0 \/ norm_q = 0
               THEN NaN
               ELSE (Dot(embs[i].vector, query_vector) * Scale)
                       \div (Isqrt(norm_p) * Isqrt(norm_q))]
        top_indices == Take(Reverse(ArgsortAsc(similarities)), top_k)
        kept == SelectSeq(top_indices,
                    LAMBDA i : similarities[i] # NaN /\ similarities[i] > 0)
    IN IF n = 0
       THEN [outcome |-> "ok", items |-> <<>>, base |-> <<>>]
       ELSE IF ragged \/ mismatch
       THEN [outcome |-> "ValueError", items |-> <<>>, base |-> <<>>]
       ELSE [outcome |-> "ok",
             items |-> [k \in 1..Len(kept) |->
                          <<embs[kept[k]].place, similarities[kept[k]]>>],
             base |-> [i \in 1..n |-> <<embs[i].place, similarities[i]>>]]

\* _calculate_user_weights(user): count / max_count * 0.1 (0.05 for locations)
calculate_user_weights(user, Sv, P) ==
    LET ec == EmotionCounts(user, Sv, P)
        lc == LocationCounts(user, Sv, P)
        MaxCount(c) == IF c = <<>> THEN 1
                       ELSE CHOOSE m \in {c[i][2] : i \in 1..Len(c)} :
                               \A i \in 1..Len(c) : c[i][2] <= m
    IN [emotions |-> [i \in 1..Len(ec) |->
                        <<ec[i][1], (ec[i][2] * 100) \div MaxCount(ec)>>],
        locations |-> [i \in 1..Len(lc) |->
                        <<lc[i][1], (lc[i][2] * 50) \div MaxCount(lc)>>]]

\* the increments _apply_cached_user_weights adds to one candidate
CachedIncrements(place, user_weights) ==
    SelectSeq([i \in 1..Len(user_weights.emotions) |->
                 [kind |-> "emotion", key |-> user_weights.emotions[i][1],
                  w |-> user_weights.emotions[i][2]]],
              LAMBDA r : r.key \in place.emotions)
    \o
    SelectSeq([i \in 1..Len(user_weights.locations) |->
                 [kind |-> "location", key |-> user_weights.locations[i][1],
                  w |-> user_weights.locations[i][2]]],
              LAMBDA r : place.location # NoLocation /\ r.key = place.location)

\* _apply_cached_user_weights(user, results)
apply_cached_user_weights(user, results, C, t, Sv, P) ==
    LET hit == CacheHit(C.user_weights, user, t)
        user_weights == IF hit THEN C.user_weights[user].value
                        ELSE calculate_user_weights(user, Sv, P)
        C1 == IF hit THEN C
              ELSE [C EXCEPT !.user_weights =
                       CacheSet(@, user, user_weights, t, OptCacheTimeout)]
        incs == [i \in 1..Len(results) |->
                   CachedIncrements(P[results[i][1]], user_weights)]
        weighted == [i \in 1..Len(results) |->
                   <<results[i][1],
                     results[i][2] + SumSeq([k \in 1..Len(incs[i]) |-> incs[i][k].w])>>]
    IN [items |-> SortDesc(weighted), cache |-> C1, incs |-> incs]

\* hybrid_search_optimized(query, user, emotion_filters, location_filters, top_k)
hybrid_search_optimized(query, user, emotion_filters, location_filters, top_k, P, Em, Sv, C, t, prov) ==
    LET key == <<query, user, top_k>>
        qv == get_cached_embedding(query, C, t, prov)
        embs == FilterEmbeddings(Em, P, emotion_filters, location_filters)
        batch == batch_similarity_calculation(qv.vector, embs, top_k)
        weighted == apply_cached_user_weights(user, batch.items, qv.cache, t, Sv, P)
        results == IF user # NoUser THEN weighted.items ELSE batch.items
        C2 == IF user # NoUser THEN weighted.cache ELSE qv.cache
    IN IF CacheHit(C.rag_search, key, t) /\ C.rag_search[key].value # <<>>
       THEN [outcome |-> "ok", hit |-> TRUE, items |-> C.rag_search[key].value,
             cache |-> C, embedCalls |-> 0, stored |-> FALSE]
       ELSE IF qv.outcome # "ok"
       THEN [outcome |-> qv.outcome, hit |-> FALSE, items |-> <<>>,
             cache |-> qv.cache, embedCalls |-> qv.embedCalls, stored |-> FALSE]
       ELSE IF batch.outcome # "ok"
       THEN [outcome |-> batch.outcome, hit |-> FALSE, items |-> <<>>,
             cache |-> qv.cache, embedCalls |-> qv.embedCalls, stored |-> FALSE]
       ELSE [outcome |-> "ok", hit |-> FALSE, items |-> results,
             cache |-> [C2 EXCEPT !.rag_search =
                           CacheSet(@, key, results, t, OptCacheTimeout)],
             embedCalls |-> qv.embedCalls, stored |-> TRUE]

---------------------------------------------------------------------------
(* The ranker on its own: a store of four embedded candidates and a user   *)
(* who saves further places one by one                                     *)

Place(gid, name, address, emotions, location) ==
    [gid |-> gid, name |-> name, address |-> address, emotions |-> emotions,
     location |-> location, rating |-> 0, types |-> {}, reviews |-> <<>>,
     status |-> "operating"]

Embedding(place, vector, source_text) ==
    [place |-> place, vector |-> vector, source_text |-> source_text,
     model_name |-> "text-embedding-3-small"]

\* the candidates' vectors: cosine 0.9, 0.5, 0.0 and -1.0 with <<1, 0, 0, 0>>
CandidateVectors == << <<9, 3, 3, 1>>, <<1, 1, 1, 1>>, <<0, 0, 1, 0>>, <<-1, 0, 0, 0>> >>

NCandidates == Len(CandidateVectors)

\* the k-th place the user can save
SavedTarget(k) ==
    Place("", <<"p">>, <<"a">>,
          IF k % 2 = 1 THEN AllEmotions ELSE {"calm", "cozy"},
          IF k % 3 = 0 THEN "Itaewon" ELSE "Yongsan")

RankPlaces(eA, lA, eB, lB) ==
    << Place("", <<"A">>, <<"a">>, eA, lA),
       Place("", <<"B">>, <<"a">>, eB, lB),
       Place("", <<"O">>, <<"a">>, {"quiet"}, "Itaewon"),
       Place("", <<"N">>, <<"a">>, {}, NoLocation) >>
    \o [k \in 1..MaxSaved |-> SavedTarget(k)]

Idle == [op |-> "none"]

InitRank ==
    /\ \E a \in {<<{}, NoLocation>>, <<AllEmotions, "Yongsan">>},
          b \in {<<{}, NoLocation>>, <<{"calm"}, NoLocation>>,
                 <<AllEmotions, "Yongsan">>} :
          places = RankPlaces(a[1], a[2], b[1], b[2])
    /\ embeddings = [i \in 1..NCandidates |-> Embedding(i, CandidateVectors[i], <<>>)]
    /\ summaries = <<>>
    /\ saved = <<>>
    /\ cache = EmptyCache
    /\ now = 0
    /\ last = Idle
    /\ upserts = <<>>

RankProviders ==
    {[plain |-> <<1, 0, 0, 0>>, personal |-> <<1, 0, 0, 0>>, failAt |-> 0],
     [plain |-> <<1, 0, 0, 0>>, personal |-> <<0, 1, 0, 0>>, failAt |-> 0],
     [plain |-> <<1, 0, 0, 0>>, personal |-> <<1, 0, 0, 0>>, failAt |-> 1],
     [plain |-> <<1, 0, 0, 0>>, personal |-> <<1, 0, 0, 0>>, failAt |-> 2]}

\* (emotion_filters, location_filters) of a call
RankFilters == {<< <<>>, <<>> >>, << <<"calm">>, <<>> >>, << <<"calm">>, <<"Yongsan">> >>}

RankTopKs == {1, 2, MaxTopK}

RankQuery == Text(<<"q">>)

\* SavedPlaceCreateView: a user saves a place
SavePlace(u, p, rec) ==
    /\ last = Idle
    /\ saved' = Append(saved, [user |-> u, shop |-> p, rec |-> rec])
    /\ UNCHANGED <<places, embeddings, summaries, cache, now, last, upserts>>

\* the response of the last call reaches its caller
Deliver ==
    /\ last # Idle
    /\ last' = Idle
    /\ UNCHANGED <<places, embeddings, summaries, saved, cache, now, upserts>>

HybridSearch(user, ef, lf, top_k, prov) ==
    /\ last = Idle
    /\ LET r == hybrid_search(RankQuery, user, ef, lf, top_k,
                              places, embeddings, saved, prov)
       IN last' = [op |-> "hybrid_search", user |-> user, top_k |-> top_k,
                   outcome |-> r.outcome, items |-> r.items, base |-> r.base,
                   incs |-> r.incs, embedCalls |-> r.embedCalls, hit |-> FALSE,
                   provFail |-> prov.failAt # 0]
    /\ UNCHANGED <<places, embeddings, summaries, saved, cache, now, upserts>>

SearchPlaces(top_k, prov) ==
    /\ last = Idle
    /\ LET r == search_places(RankQuery, top_k, embeddings, prov)
       IN last' = [op |-> "search_places", user |-> NoUser, top_k |-> top_k,
                   outcome |-> r.outcome, items |-> r.items, base |-> r.base,
                   incs |-> r.incs, embedCalls |-> r.embedCalls, hit |-> FALSE,
                   provFail |-> prov.failAt # 0]
    /\ UNCHANGED <<places, embeddings, summaries, saved, cache, now, upserts>>

\* steps 3 to 5 of hybrid_search_optimized, from a given query vector
OptimizedRanking(qv, user, ef, lf, top_k) ==
    /\ last = Idle
    /\ LET embs == FilterEmbeddings(embeddings, places, ef, lf)
           batch == batch_similarity_calculation(qv, embs, top_k)
           w == apply_cached_user_weights(user, batch.items, cache, now, saved, places)
       IN /\ last' = [op |-> "optimized_ranking", user |-> user, top_k |-> top_k,
                      outcome |-> batch.outcome,
                      items |-> IF user # NoUser THEN w.items ELSE batch.items,
                      base |-> batch.base,
                      incs |-> IF user # NoUser THEN w.incs ELSE <<>>,
                      embedCalls |-> 0, hit |-> FALSE, provFail |-> FALSE]
          /\ cache' = IF user # NoUser /\ batch.outcome = "ok" THEN w.cache ELSE cache
    /\ UNCHANGED <<places, embeddings, summaries, saved, now, upserts>>

HybridSearchOptimized(user, ef, lf, top_k, prov) ==
    /\ last = Idle
    /\ LET r == hybrid_search_optimized(RankQuery, user, ef, lf, top_k, places,
                                        embeddings, saved, cache, now, prov)
       IN /\ last' = [op |-> "hybrid_search_optimized", user |-> user,
                      top_k |-> top_k, outcome |-> r.outcome, items |-> r.items,
                      base |-> <<>>, incs |-> <<>>, embedCalls |-> r.embedCalls,
                      hit |-> r.hit, provFail |-> prov.failAt # 0,
                      stored |-> r.stored]
          /\ cache' = r.cache
    /\ UNCHANGED <<places, embeddings, summaries, saved, now, upserts>>

NextRank ==
    \/ (Len(saved) < MaxSaved /\ SavePlace(1, NCandidates + Len(saved) + 1, 1))
    \/ Deliver
    \/ \E user \in {NoUser} \cup Users, f \in RankFilters, top_k \in RankTopKs,
          prov \in RankProviders :
          HybridSearch(user, f[1], f[2], top_k, prov)
    \/ \E top_k \in RankTopKs, prov \in RankProviders : SearchPlaces(top_k, prov)
    \/ \E qv \in QueryVectors, user \in {NoUser, 1}, f \in RankFilters,
          top_k \in RankTopKs :
          OptimizedRanking(qv, user, f[1], f[2], top_k)
    \/ \E user \in {NoUser} \cup Users, f \in RankFilters, top_k \in RankTopKs,
          prov \in RankProviders :
          HybridSearchOptimized(user, f[1], f[2], top_k, prov)

SpecRank == InitRank /\ [][NextRank]_vars

---------------------------------------------------------------------------
(* Properties of the ranker (SpecRank)                                     *)

RankOps == {"hybrid_search", "search_places", "optimized_ranking",
            "hybrid_search_optimized"}

\* base similarity of place p in the last ranking call
BaseOf(p) == last.base[PosOf(last.base, p)][2]

\* a is ranked above b in the list items
RankedAbove(items, a, b) ==
    PosOf(items, b) > 0 => (PosOf(items, a) > 0 /\ PosOf(items, a) < PosOf(items, b))

\* C6 (as claimed): a cache miss of hybrid_search_optimized, with the
\* embedding provider answering, falls through to a full recomputation: the
\* query vector is fetched from the provider, the ranking is stored and the
\* call succeeds.
C6_MissFallsThrough ==
    (last.op = "hybrid_search_optimized" /\ ~last.hit /\ ~last.provFail)
        => (last.outcome = "ok" /\ last.embedCalls = 1 /\ last.stored)

\* C8 (as claimed): every increment the ranker adds to a candidate is at most
\* 0.1 for a matching preferred emotion and at most 0.05 for a matching
\* preferred location, however many places the user has saved.
C8_IncrementsBounded ==
    (last.op \in {"hybrid_search", "optimized_ranking"} /\ last.outcome = "ok")
        => \A i \in 1..Len(last.incs) : \A k \in 1..Len(last.incs[i]) :
              /\ (last.incs[i][k].kind = "emotion" => last.incs[i][k].w <= 100)
              /\ (last.incs[i][k].kind = "location" => last.incs[i][k].w <= 50)

\* a candidate of base similarity 0.9 is ranked above every candidate of base
\* similarity 0.5 in the last result
HighAboveLow ==
    \A i, j \in 1..Len(last.base) :
        (last.base[i][2] = 900 /\ last.base[j][2] = 500)
            => RankedAbove(last.items, last.base[i][1], last.base[j][1])

\* C9 (as claimed): for every user, after weighting and re-sorting, a candidate
\* of base similarity 0.9 is ranked above a candidate of base similarity 0.5,
\* whatever the two candidates match in the user's preference profile.
C9_HighSimilarityStaysAbove ==
    (last.op = "hybrid_search" /\ last.outcome = "ok" /\ last.user # NoUser)
        => HighAboveLow

\* C9 (amended): in hybrid_search, for a user with at most 7 saved places, a
\* candidate of base similarity 0.9 is ranked above a candidate of base
\* similarity 0.5 after weighting and re-sorting, whatever the two match.
C9_StaysAboveUpTo7Saves ==
    (last.op = "hybrid_search" /\ last.outcome = "ok" /\ last.user # NoUser
       /\ Len(SavedOf(last.user, saved)) <= 7)
        => HighAboveLow

\* C9 witness: a personalized hybrid_search for a user with some (at most 7)
\* saves returned the 0.9 candidate and, below it, a weighted 0.5 candidate.
C9_Witness ==
    /\ last.op = "hybrid_search" /\ last.outcome = "ok" /\ last.user # NoUser
    /\ Len(SavedOf(last.user, saved)) \in 1..7
    /\ \E i, j \in 1..Len(last.base) :
          /\ last.base[i][2] = 900 /\ last.base[j][2] = 500
          /\ last.incs[j] # <<>> /\ last.incs[i] = <<>>
          /\ PosOf(last.items, last.base[i][1]) > 0
          /\ PosOf(last.items, last.base[j][1]) > PosOf(last.items, last.base[i][1])

\* C10 (as claimed): every place in a ranking result has a strictly positive
\* similarity, also when fewer than top_k positive candidates exist.
C10_OnlyPositiveScores ==
    (last.op \in {"hybrid_search", "search_places", "optimized_ranking"}
       /\ last.outcome = "ok")
        => \A k \in 1..Len(last.items) : BaseOf(last.items[k][1]) > 0

---------------------------------------------------------------------------
(* The source-selection policy on its own: places are imported, embedded   *)
(* and saved one at a time, and the policy is asked for a decision         *)

MaxPolicyPlaces == 11

MaxPolicySaves == 4

\* the k-th imported place: the first matches the name "sb", the second the
\* address "yg", the others neither
PolicyPlace(k) ==
    Place("", IF k = 1 THEN <<"S", "b", "x">> ELSE <<"c">>,
              IF k = 2 THEN <<"Y", "g">> ELSE <<"x">>, {}, NoLocation)

PolicyNames == {<<"s", "b">>, <<"z">>}

PolicyAddresses == {<<"y", "g">>, <<"q">>}

InitPolicy ==
    /\ places = <<>>
    /\ embeddings = <<>>
    /\ summaries = <<>>
    /\ saved = <<>>
    /\ cache = EmptyCache
    /\ now = 0
    /\ last = Idle
    /\ upserts = <<>>

\* a place enters the store
ImportPlace ==
    /\ last = Idle
    /\ Len(places) < MaxPolicyPlaces
    /\ places' = Append(places, PolicyPlace(Len(places) + 1))
    /\ UNCHANGED <<embeddings, summaries, saved, cache, now, last, upserts>>

\* generate_embeddings: the next place without an embedding gets one
GenerateEmbedding ==
    /\ last = Idle
    /\ Len(embeddings) < Len(places)
    /\ embeddings' = Append(embeddings,
                            Embedding(Len(embeddings) + 1, <<1, 0, 0, 0>>, <<>>))
    /\ UNCHANGED <<places, summaries, saved, cache, now, last, upserts>>

ShouldUseRag(name, address, user_id) ==
    /\ last = Idle
    /\ last' = [op |-> "should_use_rag", name |-> name, address |-> address,
                user |-> user_id,
                use_rag |-> should_use_rag(name, address, user_id, places,
                                           embeddings, saved)]
    /\ UNCHANGED <<places, embeddings, summaries, saved, cache, now, upserts>>

NextPolicy ==
    \/ ImportPlace
    \/ GenerateEmbedding
    \/ (Len(saved) < Min(MaxPolicySaves, Len(places))
          /\ SavePlace(1, Len(saved) + 1, 1 + (Len(saved) % 2)))
    \/ \E name \in PolicyNames, address \in PolicyAddresses,
          user_id \in {NoUser} \cup Users : ShouldUseRag(name, address, user_id)
    \/ Deliver

SpecPolicy == InitPolicy /\ [][NextPolicy]_vars

\* number of SavedPlace rows of a user, of stored places similar to the query
SavedCount(u) == Cardinality({i \in 1..Len(saved) : saved[i].user = u})

SimilarCount(name, address) ==
    Cardinality({i \in 1..Len(places) :
        IContains(places[i].name, name) \/ IContains(places[i].address, address)})

\* C3: _should_use_rag chooses the internal path exactly when a user id is
\* given and that user has at least 3 saved places, or at least 2 stored
\* places contain the query name in their name or the query address in their
\* address, or at least 10 embeddings are stored.
C3_PolicyThresholds ==
    last.op = "should_use_rag"
        => (last.use_rag <=>
              \/ (last.user # NoUser /\ SavedCount(last.user) >= 3)
              \/ SimilarCount(last.name, last.address) >= 2
              \/ Len(embeddings) >= 10)

\* C3 witness: with 1 similar place and 5 embeddings, the user's third save
\* alone makes the policy choose the internal path.
C3_Witness ==
    /\ last.op = "should_use_rag" /\ last.use_rag
    /\ last.user # NoUser /\ SavedCount(last.user) = 3
    /\ SimilarCount(last.name, last.address) = 1
    /\ Len(embeddings) = 5

---------------------------------------------------------------------------
(* External collaborators of the services (google_service, emotion_service,*)
(* summary_card, address, utils)                                           *)

\* the external provider's places: stub fields and details
ExternalIds == <<"G1", "G2", "G3", "G4">>

ExternalName(g) ==
    CASE g = "G1" -> <<"S", "b">> [] g = "G2" -> <<"c", "2">>
      [] g = "G3" -> <<"c", "3">> [] OTHER -> <<"c", "4">>

ExternalAddress(g) == IF g = "G3" THEN <<"x">> ELSE <<"Y", "g">>

\* get_similar_places: a candidate stub
ExternalStub(g) == [place_id |-> g, name |-> ExternalName(g), address |-> ExternalAddress(g)]

\* get_place_details(place_id, name): G2 has no reviews
ExternalDetails(g) ==
    [name |-> ExternalName(g), formatted_address |-> ExternalAddress(g),
     rating |-> 45, types |-> {"cafe"},
     reviews |-> IF g = "G2" THEN <<>> ELSE << <<"review", g>> >>]

\* translate_to_korean(text)
translate_to_korean(text) == <<"ko">> \o text

\* extract_neighborhood(address)
extract_neighborhood(address) ==
    IF "y" \in Range(LowerSeq(address)) THEN "Yongsan" ELSE "Itaewon"

\* expand_emotions_with_gpt(emotion_tags): the tags and related emotions
expand_emotions_with_gpt(emotion_tags, env) ==
    emotion_tags \o SelectSeq(env.extra, LAMBDA e : e \notin Range(emotion_tags))

\* summaries: a generated card, the "being prepared" text and the templates
SummaryCard(g) == [kind |-> "card", a |-> <<g>>, b |-> <<>>, c |-> ""]

SummaryPending == [kind |-> "pending", a |-> <<>>, b |-> <<>>, c |-> ""]

\* f"{name}은 {neighborhood}에 위치한 가게입니다"
SummaryLocated(name, where) == [kind |-> "located", a |-> name, b |-> where, c |-> ""]

\* f"{place.name}은 {place.address}에 위치한 {category}입니다"
SummaryBasic(name, address, category) ==
    [kind |-> "basic", a |-> name, b |-> address, c |-> category]

---------------------------------------------------------------------------
(* smart_hybrid_service.py: SmartHybridService                             *)

\* place.ai_summary.order_by("-created_date").first()
SummaryRowsOf(shop, Sm) == SelectSeq(Sm, LAMBDA r : r.shop = shop)

SummaryOrTemplate(shop, P, Sm) ==
    IF SummaryRowsOf(shop, Sm) # <<>>
    THEN SummaryRowsOf(shop, Sm)[Len(SummaryRowsOf(shop, Sm))].summary
    ELSE SummaryLocated(P[shop].name, P[shop].address)

\* one dict of a result list
ResultItem(shop, place, summary, emotions, source) ==
    [shop_id |-> shop, name |-> place.name, address |-> place.address,
     summary |-> summary, emotions |-> emotions, location |-> place.location,
     google_place_id |-> place.gid, google_rating |-> place.rating,
     place_types |-> place.types, status |-> place.status, source |-> source]

\* _get_cached_emotions(emotion_tags)
get_cached_emotions(emotion_tags, C, t, env, timeout) ==
    IF CacheHit(C.emotions, emotion_tags, t) /\ C.emotions[emotion_tags].value # <<>>
    THEN [outcome |-> "ok", cache |-> C, calls |-> 0,
          names |-> SelectSeq(EmotionNames,
                       LAMBDA e : e \in Range(C.emotions[emotion_tags].value))]
    ELSE IF env.expandFails
    THEN [outcome |-> "ProviderError", cache |-> C, calls |-> 1, names |-> <<>>]
    ELSE [outcome |-> "ok", calls |-> 1,
          names |-> expand_emotions_with_gpt(emotion_tags, env),
          cache |-> [C EXCEPT !.emotions =
                        CacheSet(@, emotion_tags,
                                 expand_emotions_with_gpt(emotion_tags, env),
                                 t, timeout)]]

\* what a path reports about the external candidates when it met none
NoExternal ==
    [cands |-> <<>>, failed |-> <<>>, defaulted |-> <<>>, enriched |-> <<>>,
     detailCalls |-> 0, summaryCalls |-> 0, tagCalls |-> 0]

\* results.append({...}) for each (place, score) of rag_results
RagItems(ranked, db) ==
    [i \in 1..Len(ranked) |->
        ResultItem(ranked[i][1], db.places[ranked[i][1]],
                   SummaryOrTemplate(ranked[i][1], db.places, db.summaries),
                   EmotionSeqOf(db.places[ranked[i][1]]), "rag")]

\* _get_rag_recommendations once hybrid_search has answered or raised
RagAfterRanking(em, r, db) ==
    [items |-> IF r.outcome = "ok" THEN RagItems(r.items, db) ELSE <<>>,
     db |-> db, cache |-> em.cache, embedCalls |-> r.embedCalls, searchCalls |-> 0,
     rankCalls |-> 1, rankOutcome |-> r.outcome, expandCalls |-> em.calls,
     ext |-> NoExternal]

\* _get_rag_recommendations once the emotions are expanded or that raised
RagAfterEmotions(em, name, address, user, top_k, db, Sv, env) ==
    IF em.outcome # "ok"
    THEN [items |-> <<>>, db |-> db, cache |-> em.cache, embedCalls |-> 0,
          searchCalls |-> 0, rankCalls |-> 0, rankOutcome |-> "none",
          expandCalls |-> em.calls,
          ext |-> NoExternal]
    ELSE RagAfterRanking(em,
             hybrid_search(Text(<<name, em.names, address>>), user, em.names, <<>>,
                           Min(5, top_k), db.places, db.embeddings, Sv, env.prov),
             db)

\* _get_rag_recommendations(name, address, emotion_tags, user_id, top_k)
get_rag_recommendations(name, address, emotion_tags, user_id, top_k, db, Sv, C, t, env) ==
    RagAfterEmotions(get_cached_emotions(emotion_tags, C, t, env, SmartCacheTimeout),
                     name, address, IF user_id \in Users THEN user_id ELSE NoUser,
                     top_k, db, Sv, env)


\* a variant of _get_supplement_recommendations without the [:needed_count] cut
get_supplement_unbounded(name, address, needed_count, db) ==
    LET found == KeywordPlaces(name, address, db.places)
    IN [i \in 1..Len(found) |->
          ResultItem(found[i], db.places[found[i]],
                     SummaryOrTemplate(found[i], db.places, db.summaries),
                     EmotionSeqOf(db.places[found[i]]), "db_supplement")]

\* _get_supplement_recommendations(name, address, emotion_tags, user_id, needed_count)
get_supplement_recommendations(name, address, needed_count, db) ==
    LET found == Take(KeywordPlaces(name, address, db.places), needed_count)
    IN [i \in 1..Len(found) |->
          ResultItem(found[i], db.places[found[i]],
                     SummaryOrTemplate(found[i], db.places, db.summaries),
                     EmotionSeqOf(db.places[found[i]]), "db_supplement")]

\* _get_default_emotions_for_category(category)
get_default_emotions_for_category(category) ==
    IF category = "cafe" THEN <<"cozy", "quiet">> ELSE <<"tasty", "calm">>

NoSummary == [kind |-> "none", a |-> <<>>, b |-> <<>>, c |-> ""]

\* build_corpus_for_place(place)
build_corpus_for_place(shop, db) ==
    [name |-> db.places[shop].name, address |-> db.places[shop].address,
     emotions |-> EmotionSeqOf(db.places[shop]),
     summary |-> IF SummaryRowsOf(shop, db.summaries) # <<>>
                 THEN SummaryOrTemplate(shop, db.places, db.summaries)
                 ELSE NoSummary,
     reviews |-> Take(db.places[shop].reviews, 5)]

\* the embedding provider's vector for a place corpus
embed_corpus(corpus) ==
    IF corpus.reviews # <<>> THEN <<9, 3, 3, 1>> ELSE <<1, 1, 1, 1>>

\* upsert_place_embedding(place): the rows of PlaceEmbedding afterwards
upsert_place_embedding(shop, db) ==
    LET row == Embedding(shop, embed_corpus(build_corpus_for_place(shop, db)),
                         build_corpus_for_place(shop, db))
    IN IF \E i \in 1..Len(db.embeddings) : db.embeddings[i].place = shop
       THEN [i \in 1..Len(db.embeddings) |->
               IF db.embeddings[i].place = shop THEN row ELSE db.embeddings[i]]
       ELSE Append(db.embeddings, row)

\* index of the Place row with this google_place_id, 0 if there is none
PlaceIndex(gid, P) ==
    IF \E i \in 1..Len(P) : P[i].gid = gid
    THEN CHOOSE i \in 1..Len(P) : P[i].gid = gid /\ \A j \in 1..(i - 1) : P[j].gid # gid
    ELSE 0

\* Place.objects.update_or_create(google_place_id=gid, defaults=...): the
\* existing row or a row of field defaults, before the defaults are applied
RowForUpdate(gid, P) ==
    IF PlaceIndex(gid, P) # 0 THEN P[PlaceIndex(gid, P)]
    ELSE Place(gid, <<>>, <<>>, {}, NoLocation)

\* the rows of Place after saving row under gid
SaveRow(gid, row, P) ==
    IF PlaceIndex(gid, P) # 0 THEN [P EXCEPT ![PlaceIndex(gid, P)] = row]
    ELSE Append(P, row)

\* the summary of a candidate of the detailed branch
DetailedSummary(c, env) ==
    IF ExternalDetails(c.place_id).reviews # <<>>
    THEN IF env.summaryEmpty THEN SummaryPending ELSE SummaryCard(c.place_id)
    ELSE SummaryLocated(c.name,
             <<extract_neighborhood(
                  translate_to_korean(ExternalDetails(c.place_id).formatted_address))>>)

\* the Place row of a candidate of the detailed branch
DetailedRow(c, details, tags, P) ==
    [RowForUpdate(c.place_id, P) EXCEPT
        !.name = translate_to_korean(details.name),
        !.address = translate_to_korean(details.formatted_address),
        !.location = extract_neighborhood(translate_to_korean(details.formatted_address)),
        !.rating = details.rating,
        !.reviews = details.reviews,
        !.types = details.types,
        !.emotions = Range(tags)]

\* the Place row of a candidate of the basic branch
BasicRow(c, category, P) ==
    [RowForUpdate(c.place_id, P) EXCEPT
        !.name = c.name,
        !.address = c.address,
        !.location = extract_neighborhood(c.address),
        !.rating = 0,
        !.types = {},
        !.status = "operating",
        !.emotions = Range(get_default_emotions_for_category(category))]

\* the primary key of the row update_or_create returns
ShopIdFor(gid, P) == IF PlaceIndex(gid, P) # 0 THEN PlaceIndex(gid, P) ELSE Len(P) + 1

\* the database after update_or_create and, if created, AISummary.objects.create
StoreRow(gid, row, summary, db) ==
    [places |-> SaveRow(gid, row, db.places), embeddings |-> db.embeddings,
     summaries |-> IF PlaceIndex(gid, db.places) = 0
                   THEN Append(db.summaries,
                               [shop |-> ShopIdFor(gid, db.places), summary |-> summary])
                   ELSE db.summaries]

\* the try around upsert_place_embedding(place)
TryUpsert(shop, db, prov) ==
    IF prov.failAt # 0 THEN db
    ELSE [db EXCEPT !.embeddings = upsert_place_embedding(shop, db)]

\* body of the loop of _get_google_recommendations for i < 3
GoogleDetailed(c, env, db) ==
    [db |-> TryUpsert(ShopIdFor(c.place_id, db.places),
                      StoreRow(c.place_id,
                               DetailedRow(c, ExternalDetails(c.place_id), env.tags,
                                           db.places),
                               DetailedSummary(c, env), db),
                      env.prov),
     item |-> ResultItem(ShopIdFor(c.place_id, db.places),
                         DetailedRow(c, ExternalDetails(c.place_id), env.tags, db.places),
                         DetailedSummary(c, env), env.tags, "google_detailed")]

\* body of the loop of _get_google_recommendations for i >= 3
GoogleBasic(c, category, db) ==
    [db |-> StoreRow(c.place_id, BasicRow(c, category, db.places),
                     SummaryBasic(c.name, c.address, category), db),
     item |-> ResultItem(ShopIdFor(c.place_id, db.places),
                         BasicRow(c, category, db.places),
                         SummaryBasic(c.name, c.address, category),
                         get_default_emotions_for_category(category), "google_basic")]

\* if i < 3 (the code counts from 0, the loop below from 1)
EnrichedUpTo4(i) == i - 1 < 4

Enriched(i) == i - 1 < 3

\* the call that raises while the i-th candidate is processed, "none" if none:
\* the summary call is only made for a place with reviews, and a candidate
\* past the enriched ones only meets the store call
CandidateFailure(env, i, c) ==
    IF env.failIndex # i THEN "none"
    ELSE IF ~Enriched(i)
    THEN IF env.failStage = "store" THEN "store" ELSE "none"
    ELSE IF env.failStage = "summary" /\ ExternalDetails(c.place_id).reviews = <<>>
    THEN "none"
    ELSE env.failStage

\* the collaborator calls made for the i-th candidate
CallsFor(env, i, c) ==
    IF ~Enriched(i) THEN [detail |-> 0, summary |-> 0, tag |-> 0, embed |-> 0]
    ELSE [detail |-> 1,
          summary |-> IF CandidateFailure(env, i, c) # "details"
                         /\ ExternalDetails(c.place_id).reviews # <<>>
                      THEN 1 ELSE 0,
          tag |-> IF CandidateFailure(env, i, c) \in {"details", "summary"}
                  THEN 0 ELSE 1,
          embed |-> IF CandidateFailure(env, i, c) = "none" THEN 1 ELSE 0]

\* the calls made for the candidate gid, added to the calls of the request
CountCalls(calls, gid, acc) ==
    [acc EXCEPT !.detailCalls = @ + calls.detail, !.summaryCalls = @ + calls.summary,
                !.tagCalls = @ + calls.tag, !.embedCalls = @ + calls.embed,
                !.enriched = IF calls.detail = 1 THEN Append(@, gid) ELSE @]

\* the results and the counts before the first candidate
EmptyAcc(db) ==
    [db |-> db, items |-> <<>>, failed |-> <<>>, defaulted |-> <<>>, enriched |-> <<>>,
     detailCalls |-> 0, summaryCalls |-> 0, tagCalls |-> 0, embedCalls |-> 0]

\* a variant of the except branch that also drops the results collected so far
SkipAndForget(acc, gid) == [acc EXCEPT !.items = <<>>, !.failed = Append(@, gid)]

\* except Exception: continue
SkipCandidate(acc, gid) == [acc EXCEPT !.failed = Append(@, gid)]

\* one pass of the loop body: the database and the results after it
GoogleStep(step, acc) == [acc EXCEPT !.db = step.db, !.items = Append(@, step.item)]

\* the loop over candidate_places, from the i-th candidate on (i counts from 1)
RECURSIVE GoogleLoop(_, _, _, _, _)
GoogleLoop(i, cands, category, env, acc) ==
    IF i > Len(cands) THEN acc
    ELSE GoogleLoop(i + 1, cands, category, env,
             CountCalls(CallsFor(env, i, cands[i]), cands[i].place_id,
                 IF CandidateFailure(env, i, cands[i]) # "none"
                 THEN SkipCandidate(acc, cands[i].place_id)
                 ELSE GoogleStep(IF Enriched(i)
                                 THEN GoogleDetailed(cands[i], env, acc.db)
                                 ELSE GoogleBasic(cands[i], category, acc.db),
                                 acc)))

\* get_similar_places(address, emotion_names, allowed_types)[:top_k]
CandidatePlaces(env, top_k) ==
    Take([i \in 1..Len(env.cands) |-> ExternalStub(env.cands[i])], top_k)

\* what a path reports about the external candidates it met
ExternalReport(cands, loop) ==
    [cands |-> [i \in 1..Len(cands) |-> cands[i].place_id],
     failed |-> loop.failed, defaulted |-> loop.defaulted, enriched |-> loop.enriched,
     detailCalls |-> loop.detailCalls, summaryCalls |-> loop.summaryCalls,
     tagCalls |-> loop.tagCalls]

\* _get_google_recommendations once the loop has run
GoogleAfterLoop(em, loop, cands) ==
    [items |-> loop.items, db |-> loop.db, cache |-> em.cache, searchCalls |-> 1,
     embedCalls |-> loop.embedCalls,
     rankCalls |-> 0, rankOutcome |-> "none", expandCalls |-> em.calls,
     ext |-> ExternalReport(cands, loop)]

\* _get_google_recommendations once the emotions are expanded or that raised
GoogleAfterEmotions(em, category, top_k, db, env) ==
    IF em.outcome # "ok" \/ env.searchFails
    THEN [items |-> <<>>, db |-> db, cache |-> em.cache,
          searchCalls |-> IF em.outcome # "ok" THEN 0 ELSE 1,
          embedCalls |-> 0, rankCalls |-> 0, rankOutcome |-> "none",
          expandCalls |-> em.calls, ext |-> NoExternal]
    ELSE GoogleAfterLoop(em,
             GoogleLoop(1, CandidatePlaces(env, top_k), category, env,
                        EmptyAcc(db)),
             CandidatePlaces(env, top_k))

\* _get_google_recommendations(name, address, emotion_tags, category, top_k)
get_google_recommendations(address, emotion_tags, category, top_k, db, C, t, env) ==
    GoogleAfterEmotions(get_cached_emotions(emotion_tags, C, t, env, SmartCacheTimeout),
                        category, top_k, db, env)

\* str(user_id) inside the f-string of the cache key
UserStr(user_id) == IF user_id = NoUser THEN "None" ELSE IF user_id = 1 THEN "1" ELSE "2"

\* f'{name}{address}{emotion_tags}{user_id}': the texts joined without separators
SmartKey(req) ==
    req.name \o req.address \o <<"[">> \o req.tags \o <<"]">> \o <<UserStr(req.user)>>

\* cache.set(cache_key, results, self.cache_timeout); by is the writing request
SmartCacheSet(ns, key, value, t, timeout, by) ==
    [k \in DOMAIN ns \cup {key} |->
        IF k = key THEN [value |-> value, expires |-> t + timeout, by |-> by] ELSE ns[k]]

\* shop ids of SavedPlace.objects.filter(user_id=user_id, rec=1)
SavedShopIds(user_id, Sv) ==
    {Sv[i].shop : i \in {j \in 1..Len(Sv) : Sv[j].user = user_id /\ Sv[j].rec = 1}}

\* what the cache holds under the request's key before the call
PriorEntry(req, C, t) ==
    IF CacheHit(C.smart_rec, SmartKey(req), t)
    THEN [fresh |-> TRUE, by |-> C.smart_rec[SmartKey(req)].by,
          value |-> C.smart_rec[SmartKey(req)].value]
    ELSE [fresh |-> FALSE, by |-> req, value |-> <<>>]

\* step 3 of generate_smart_recommendations: drop the user's saved places
ExcludeSaved(req, Sv, merged) ==
    IF req.user # NoUser
    THEN SelectSeq(merged, LAMBDA r : r.shop_id \notin SavedShopIds(req.user, Sv))
    ELSE merged

\* step 4 and the return: cache the results, return results[:top_k]
CacheAndReturn(req, t, use_rag, path, short, supplement_results, results) ==
    [items |-> Take(results, req.top_k), db |-> path.db,
     cache |-> [path.cache EXCEPT !.smart_rec =
                   SmartCacheSet(@, SmartKey(req), results, t, SmartCacheTimeout, req)],
     hit |-> FALSE, use_rag |-> use_rag, chosen |-> path.items,
     suppCalled |-> short,
     suppNeeded |-> IF short THEN req.top_k - Len(path.items) ELSE 0,
     supp |-> supplement_results, embedCalls |-> path.embedCalls,
     searchCalls |-> path.searchCalls, rankCalls |-> path.rankCalls,
     rankOutcome |-> path.rankOutcome, expandCalls |-> path.expandCalls,
     ext |-> path.ext]

\* results.extend(supplement_results)
Extend(req, Sv, t, use_rag, path, short, supplement_results) ==
    CacheAndReturn(req, t, use_rag, path, short, supplement_results,
                   ExcludeSaved(req, Sv, path.items \o supplement_results))

\* step 2 of generate_smart_recommendations: supplement a short result
Supplement(req, Sv, t, use_rag, path) ==
    Extend(req, Sv, t, use_rag, path, Len(path.items) < req.top_k,
           IF Len(path.items) < req.top_k
           THEN get_supplement_recommendations(req.name, req.address,
                                               req.top_k - Len(path.items), path.db)
           ELSE <<>>)

\* step 1 of generate_smart_recommendations: the path _should_use_rag chooses
ChosenPath(req, db, Sv, C, t, env, use_rag) ==
    Supplement(req, Sv, t, use_rag,
               IF use_rag
               THEN get_rag_recommendations(req.name, req.address, req.tags, req.user,
                                            req.top_k, db, Sv, C, t, env)
               ELSE get_google_recommendations(req.address, req.tags, req.category,
                                               req.top_k, db, C, t, env))

\* generate_smart_recommendations(name, address, emotion_tags, user_id, category, top_k)
generate_smart_recommendations(req, db, Sv, C, t, env) ==
    IF CacheHit(C.smart_rec, SmartKey(req), t) /\ C.smart_rec[SmartKey(req)].value # <<>>
    THEN [items |-> C.smart_rec[SmartKey(req)].value, db |-> db, cache |-> C,
          hit |-> TRUE, use_rag |-> FALSE, chosen |-> <<>>, suppCalled |-> FALSE,
          suppNeeded |-> 0, supp |-> <<>>, embedCalls |-> 0, searchCalls |-> 0,
          rankCalls |-> 0, rankOutcome |-> "none", expandCalls |-> 0,
          ext |-> NoExternal]
    ELSE ChosenPath(req, db, Sv, C, t, env,
                    should_use_rag(req.name, req.address, req.user,
                                   db.places, db.embeddings, Sv))

---------------------------------------------------------------------------
(* UltraFastService: a basic pass over every candidate, details for three  *)

\* body of the loop of _get_basic_google_places
UltraBasic(c, category, db) == GoogleBasic(c, category, db)

\* the loop of _get_basic_google_places, from the i-th candidate on
RECURSIVE UltraBasicLoop(_, _, _, _, _)
UltraBasicLoop(i, cands, category, env, acc) ==
    IF i > Len(cands) THEN acc
    ELSE UltraBasicLoop(i + 1, cands, category, env,
             IF env.failIndex = i /\ env.failStage = "store"
             THEN SkipCandidate(acc, cands[i].place_id)
             ELSE GoogleStep(UltraBasic(cands[i], category, acc.db), acc))

\* the candidate for which a collaborator raises, "" if there is none
FailGid(env) ==
    IF env.failIndex \in 1..Len(env.cands) THEN env.cands[env.failIndex] ELSE ""

\* the step of _add_details_to_top_places that raises for place_data, "none" if
\* none: get_or_create raises when the place has several summary rows
UltraStage(env, place_data, db) ==
    IF place_data.google_place_id = FailGid(env) /\ env.failStage = "details"
    THEN "details"
    ELSE IF /\ place_data.google_place_id = FailGid(env)
            /\ env.failStage = "summary"
            /\ ExternalDetails(place_data.google_place_id).reviews # <<>>
    THEN "summary"
    ELSE IF Len(SummaryRowsOf(place_data.shop_id, db.summaries)) > 1
    THEN "rows"
    ELSE IF place_data.google_place_id = FailGid(env) /\ env.failStage = "tags"
    THEN "tags"
    ELSE "none"

\* generate_summary_card(...) or place_data.get('summary', '')
UltraSummary(place_data, env) ==
    IF ExternalDetails(place_data.google_place_id).reviews # <<>> /\ ~env.summaryEmpty
    THEN SummaryCard(place_data.google_place_id)
    ELSE place_data.summary

\* generate_emotion_tags(...) or place_data.get('emotions', [])
UltraTags(place_data, env) ==
    IF env.tags # <<>> THEN env.tags ELSE place_data.emotions

\* place.name = name_ko ... place.save()
UltraSavedDb(place_data, db) ==
    [db EXCEPT !.places[place_data.shop_id] =
        [@ EXCEPT !.name = translate_to_korean(
                               ExternalDetails(place_data.google_place_id).name),
                  !.address = translate_to_korean(
                               ExternalDetails(place_data.google_place_id).formatted_address),
                  !.rating = ExternalDetails(place_data.google_place_id).rating,
                  !.types = ExternalDetails(place_data.google_place_id).types]]

\* AISummary.objects.get_or_create(shop=place), then summary_obj.save()
SetSummary(shop, summary, Sm) ==
    IF SummaryRowsOf(shop, Sm) = <<>>
    THEN Append(Sm, [shop |-> shop, summary |-> summary])
    ELSE [i \in 1..Len(Sm) |->
            IF Sm[i].shop = shop THEN [Sm[i] EXCEPT !.summary = summary] ELSE Sm[i]]

UltraSummaryDb(place_data, env, db) ==
    [db EXCEPT !.summaries = SetSummary(place_data.shop_id,
                                        UltraSummary(place_data, env), @)]

\* place.emotions.set(emotion_objs)
UltraEmotionsDb(place_data, env, db) ==
    [db EXCEPT !.places[place_data.shop_id].emotions = Range(UltraTags(place_data, env))]

\* the database after the try block for place_data, left at the step that raised
UltraDetailDb(place_data, env, db, stage) ==
    IF stage = "details" THEN db
    ELSE IF stage \in {"summary", "rows"} THEN UltraSavedDb(place_data, db)
    ELSE IF stage = "tags"
    THEN UltraSummaryDb(place_data, env, UltraSavedDb(place_data, db))
    ELSE UltraEmotionsDb(place_data, env,
             UltraSummaryDb(place_data, env, UltraSavedDb(place_data, db)))

\* place_data.update({...})
UltraDetailItem(place_data, env) ==
    [place_data EXCEPT
        !.name = translate_to_korean(ExternalDetails(place_data.google_place_id).name),
        !.address = translate_to_korean(
                        ExternalDetails(place_data.google_place_id).formatted_address),
        !.summary = UltraSummary(place_data, env),
        !.emotions = UltraTags(place_data, env),
        !.google_rating = ExternalDetails(place_data.google_place_id).rating,
        !.place_types = ExternalDetails(place_data.google_place_id).types,
        !.source = "google_detailed"]

\* the collaborator calls made for place_data
UltraCalls(place_data, stage) ==
    [detail |-> 1,
     summary |-> IF stage # "details"
                    /\ ExternalDetails(place_data.google_place_id).reviews # <<>>
                 THEN 1 ELSE 0,
     tag |-> IF stage \in {"tags", "none"} THEN 1 ELSE 0,
     embed |-> 0]

\* one pass of the loop of _add_details_to_top_places: on an exception the
\* place_data is appended as the basic pass left it
UltraDetailStep(place_data, env, stage, acc) ==
    CountCalls(UltraCalls(place_data, stage), place_data.google_place_id,
        [acc EXCEPT
            !.db = UltraDetailDb(place_data, env, @, stage),
            !.items = Append(@, IF stage = "none"
                                THEN UltraDetailItem(place_data, env)
                                ELSE place_data),
            !.defaulted = IF stage = "none" THEN @
                          ELSE Append(@, place_data.google_place_id)])

\* _add_details_to_top_places(places, emotion_tags), from the j-th place on
RECURSIVE UltraDetailLoop(_, _, _, _)
UltraDetailLoop(j, top, env, acc) ==
    IF j > Len(top) THEN acc
    ELSE UltraDetailLoop(j + 1, top, env,
             UltraDetailStep(top[j], env, UltraStage(env, top[j], acc.db), acc))

\* all_results = detailed_results + remaining_results
UltraAfterDetails(em, cands, basic, det) ==
    [items |-> det.items \o Drop(basic.items, 3), db |-> det.db, cache |-> em.cache,
     searchCalls |-> 1, expandCalls |-> em.calls, ext |-> ExternalReport(cands, det)]

\* _add_details_to_top_places(basic_results[:3], emotion_tags)
UltraAfterBasic(em, cands, env, basic) ==
    UltraAfterDetails(em, cands, basic,
        UltraDetailLoop(1, Take(basic.items, 3), env, [basic EXCEPT !.items = <<>>]))

\* _get_basic_google_places once the emotions are expanded or that raised
UltraAfterEmotions(em, category, top_k, db, env) ==
    IF em.outcome # "ok" \/ env.searchFails
    THEN [items |-> <<>>, db |-> db, cache |-> em.cache,
          searchCalls |-> IF em.outcome # "ok" THEN 0 ELSE 1,
          expandCalls |-> em.calls, ext |-> NoExternal]
    ELSE UltraAfterBasic(em, CandidatePlaces(env, top_k), env,
             UltraBasicLoop(1, CandidatePlaces(env, top_k), category, env, EmptyAcc(db)))

\* steps 5 and 6 and the return: drop the saved places, cache, return [:top_k]
UltraReturn(req, t, path, all_results) ==
    [items |-> Take(all_results, req.top_k), db |-> path.db,
     cache |-> [path.cache EXCEPT !.ultra_fast =
                   CacheSet(@, SmartKey(req), all_results, t, SmartCacheTimeout)],
     hit |-> FALSE, chosen |-> path.items, searchCalls |-> path.searchCalls,
     expandCalls |-> path.expandCalls, ext |-> path.ext]

UltraExclude(req, Sv, t, path) ==
    UltraReturn(req, t, path, ExcludeSaved(req, Sv, path.items))

\* generate_ultra_fast_recommendations(name, address, emotion_tags, user_id, category, top_k)
generate_ultra_fast_recommendations(req, db, Sv, C, t, env) ==
    IF CacheHit(C.ultra_fast, SmartKey(req), t) /\ C.ultra_fast[SmartKey(req)].value # <<>>
    THEN [items |-> C.ultra_fast[SmartKey(req)].value, db |-> db, cache |-> C,
          hit |-> TRUE, chosen |-> <<>>, searchCalls |-> 0, expandCalls |-> 0,
          ext |-> NoExternal]
    ELSE UltraExclude(req, Sv, t,
             UltraAfterEmotions(
                 get_cached_emotions(req.tags, C, t, env, SmartCacheTimeout),
                 req.category, req.top_k, db, env))

---------------------------------------------------------------------------
(* The smart recommendation service over a database, the cache and a clock *)

\* advances of the clock
MaxTicks == 2

\* places a user saves between the calls
MaxSmartSaves == 1

\* the clock advances by half the cache timeout; a call takes one second
TickStep == SmartCacheTimeout \div 2

Request(name, address, tags, user, category, top_k) ==
    [name |-> name, address |-> address, tags |-> tags, user |-> user,
     category |-> category, top_k |-> top_k]

SmartRequests ==
    {Request(<<"s", "b">>, <<"y", "g">>, <<"calm">>, 1, "cafe", 2),
     Request(<<"s", "b">>, <<"y", "g">>, <<"calm">>, 1, "restaurant", 2),
     Request(<<"s", "b">>, <<"y", "g">>, <<"calm">>, 1, "cafe", MaxTopK),
     Request(<<"s", "b">>, <<"y", "g">>, <<"calm">>, NoUser, "cafe", MaxTopK),
     Request(<<"z">>, <<"q">>, <<"tasty">>, 1, "cafe", 2),
     Request(<<"z">>, <<"y", "g">>, <<"calm">>, NoUser, "restaurant", MaxTopK),
     Request(<<"z">>, <<"q">>, <<"tasty">>, NoUser, "cafe", 2)}

GoodProvider == [plain |-> <<1, 0, 0, 0>>, personal |-> <<1, 0, 0, 0>>, failAt |-> 0]

\* what the external collaborators do during one call
Env(cands, failIndex, failStage, summaryEmpty, tags, failAt, expandFails, searchFails) ==
    [cands |-> cands, failIndex |-> failIndex, failStage |-> failStage,
     summaryEmpty |-> summaryEmpty,
     tags |-> tags, prov |-> [GoodProvider EXCEPT !.failAt = failAt],
     extra |-> <<"cozy">>, expandFails |-> expandFails, searchFails |-> searchFails]

SmartEnvs ==
    {Env(ExternalIds, 0, "none", FALSE, <<"romantic">>, 0, FALSE, FALSE),
     Env(<<"G2">>, 0, "none", TRUE, <<>>, 0, FALSE, FALSE),
     Env(<<"G1", "G3">>, 2, "details", FALSE, <<"romantic">>, 1, FALSE, FALSE),
     Env(<<"G3", "G1">>, 1, "tags", TRUE, <<>>, 0, FALSE, FALSE),
     Env(ExternalIds, 4, "store", FALSE, <<"romantic">>, 0, FALSE, FALSE),
     Env(<<>>, 0, "none", FALSE, <<>>, 0, FALSE, FALSE),
     Env(<<"G1">>, 0, "none", FALSE, <<>>, 0, TRUE, FALSE),
     Env(<<"G1">>, 0, "none", FALSE, <<>>, 0, FALSE, TRUE)}

\* a database that earlier imports and saves have filled
SeedPlaces ==
    << Place("", <<"S", "b", "x">>, <<"x">>, {"calm"}, "Itaewon"),
       Place("G2", <<"c">>, <<"Y", "g">>, {"calm", "cozy"}, "Yongsan"),
       Place("", <<"O">>, <<"a">>, {}, NoLocation) >>

SeedSaved ==
    << [user |-> 1, shop |-> 1, rec |-> 1], [user |-> 1, shop |-> 2, rec |-> 2],
       [user |-> 1, shop |-> 3, rec |-> 1] >>

Init ==
    /\ \/ /\ places = <<>>
          /\ embeddings = <<>>
          /\ summaries = <<>>
          /\ saved = <<>>
       \/ /\ places = SeedPlaces
          /\ embeddings = [i \in 1..3 |-> Embedding(i, CandidateVectors[i], <<>>)]
          /\ summaries = << [shop |-> 1, summary |-> SummaryCard("S1")] >>
          /\ saved = SeedSaved
    /\ cache = EmptyCache
    /\ now = 0
    /\ last = Idle
    /\ upserts = <<>>

\* the state after a call that produced r, and what its caller observes
Respond(req, r) ==
    /\ places' = r.db.places
    /\ embeddings' = r.db.embeddings
    /\ summaries' = r.db.summaries
    /\ cache' = r.cache
    /\ now' = now + 1
    /\ last' = [op |-> "smart", req |-> req, outcome |-> "ok", items |-> r.items,
                hit |-> r.hit, use_rag |-> r.use_rag, chosenCount |-> Len(r.chosen),
                suppCalled |-> r.suppCalled, suppNeeded |-> r.suppNeeded,
                supp |-> [i \in 1..Len(r.supp) |->
                            [shop_id |-> r.supp[i].shop_id,
                             source |-> r.supp[i].source]],
                embedCalls |-> r.embedCalls,
                searchCalls |-> r.searchCalls, rankCalls |-> r.rankCalls,
                rankOutcome |-> r.rankOutcome, expandCalls |-> r.expandCalls,
                prior |-> PriorEntry(req, cache, now), at |-> now,
                ext |-> r.ext,
                chosenIds |-> [i \in 1..Len(r.chosen) |-> r.chosen[i].google_place_id]]
    /\ UNCHANGED <<saved, upserts>>

\* one call of generate_smart_recommendations
GenerateSmart(req, env) ==
    /\ last = Idle
    /\ now % TickStep < MaxCalls
    /\ Respond(req, generate_smart_recommendations(
                        req, [places |-> places, embeddings |-> embeddings,
                              summaries |-> summaries],
                        saved, cache, now, env))

\* time passes
Tick ==
    /\ last = Idle
    /\ now \div TickStep < MaxTicks
    /\ now' = now + TickStep
    /\ UNCHANGED <<places, embeddings, summaries, saved, cache, last, upserts>>

\* rows of SavedPlace the database started with
InitialSaves ==
    IF Len(saved) >= Len(SeedSaved) /\ SubSeq(saved, 1, Len(SeedSaved)) = SeedSaved
    THEN Len(SeedSaved) ELSE 0

\* a user saves a place with rec = 1
SaveRecommended(u, p) ==
    /\ Len(saved) - InitialSaves < MaxSmartSaves
    /\ \A i \in 1..Len(saved) : ~(saved[i].user = u /\ saved[i].shop = p)
    /\ SavePlace(u, p, 1)

Next ==
    \/ \E req \in SmartRequests, env \in SmartEnvs : GenerateSmart(req, env)
    \/ Tick
    \/ \E p \in 1..Len(places) : SaveRecommended(1, p)
    \/ Deliver

Spec == Init /\ [][Next]_vars

---------------------------------------------------------------------------
(* The external path of both services under failures of the collaborators  *)

EnrichRequests ==
    {Request(<<"z">>, <<"q">>, <<"tasty">>, NoUser, "cafe", MaxTopK),
     Request(<<"z">>, <<"q">>, <<"calm">>, NoUser, "restaurant", MaxTopK),
     Request(<<"z">>, <<"q">>, <<"tasty">>, 1, "cafe", 2)}

FailStages == {"details", "summary", "tags", "store"}

\* the collaborators answer, or one call raises for one candidate; the summary
\* and the tags they return may be empty
EnrichEnvs ==
    {Env(cands, f[1], f[2], empty, IF empty THEN <<>> ELSE <<"romantic">>,
         0, FALSE, FALSE) :
        cands \in {ExternalIds, <<"G2", "G4", "G1">>},
        f \in {<<0, "none">>} \cup ((1..MaxTopK) \X FailStages),
        empty \in BOOLEAN}

\* the state after a call of the ultra fast service, and what its caller observes
RespondUltra(req, r) ==
    /\ places' = r.db.places
    /\ embeddings' = r.db.embeddings
    /\ summaries' = r.db.summaries
    /\ cache' = r.cache
    /\ now' = now + 1
    /\ last' = [op |-> "ultra", req |-> req, outcome |-> "ok", items |-> r.items,
                hit |-> r.hit, use_rag |-> FALSE, searchCalls |-> r.searchCalls,
                expandCalls |-> r.expandCalls, at |-> now, ext |-> r.ext,
                chosenIds |-> [i \in 1..Len(r.chosen) |-> r.chosen[i].google_place_id]]
    /\ UNCHANGED <<saved, upserts>>

\* one call of generate_ultra_fast_recommendations
GenerateUltra(req, env) ==
    /\ last = Idle
    /\ now % TickStep < MaxCalls
    /\ RespondUltra(req, generate_ultra_fast_recommendations(
                             req, [places |-> places, embeddings |-> embeddings,
                                   summaries |-> summaries],
                             saved, cache, now, env))

NextEnrich ==
    \/ \E req \in EnrichRequests, env \in EnrichEnvs : GenerateSmart(req, env)
    \/ \E req \in EnrichRequests, env \in EnrichEnvs : GenerateUltra(req, env)
    \/ Deliver

SpecEnrich == Init /\ [][NextEnrich]_vars

---------------------------------------------------------------------------
(* Properties of the smart recommendation service                          *)

\* the last call was a call of generate_smart_recommendations that computed
SmartMiss == last.op = "smart" /\ ~last.hit

SupplementExpected(req, n) ==
    Take(KeywordPlaces(req.name, req.address, places), n)

Identity(item) ==
    <<item.google_place_id, IF item.google_place_id = "" THEN item.shop_id ELSE 0>>

\* C2: the list returned by generate_smart_recommendations contains each place
\* at most once
C2_EachPlaceOnce ==
    last.op = "smart"
        => \A i, j \in 1..Len(last.items) :
              i < j => Identity(last.items[i]) # Identity(last.items[j])

\* C4: a request is never answered from a cache entry written by a request that
\* differs from it in an input (name, address, emotion tags, category, user, K)
C4_HitOnlyOwnEntry ==
    (last.op = "smart" /\ last.hit) => last.prior.by = last.req

\* C5: a call that repeats, within the timeout, the call that wrote the entry
\* under its key returns the same list and calls no external collaborator,
\* whatever the first result was
C5_RepeatIsIdempotent ==
    (last.op = "smart" /\ last.prior.fresh /\ last.prior.by = last.req)
        => /\ last.items = Take(last.prior.value, last.req.top_k)
           /\ last.embedCalls = 0
           /\ last.searchCalls = 0
           /\ last.expandCalls = 0

\* C7: when the embedding provider fails during the ranking call the caller of
\* generate_smart_recommendations receives a failure, not a list
C7_ProviderFailureIsExplicit ==
    (last.op = "smart" /\ last.rankOutcome = "ProviderError") => last.outcome # "ok"

---------------------------------------------------------------------------
(* The similarity function and the two rankers over small embedding stores *)

\* vectors a store may hold: cosine 1.0, 0.9, 0.5 and 0.0 with <<1, 0, 0, 0>>,
\* an all-zero vector and a vector of another length
SimVectors ==
    {<<1, 0, 0, 0>>, <<9, 3, 3, 1>>, <<1, 1, 1, 1>>, <<0, 0, 1, 0>>,
     <<0, 0, 0, 0>>, <<1, 0>>}

\* arguments of cosine_similarity
CosineArgs == SimVectors \cup {<<>>}

\* Place rows: three with an embedding and one without
SimPlaces ==
    << Place("", <<"P", "1">>, <<"a">>, {"calm"}, "Itaewon"),
       Place("", <<"P", "2">>, <<"a">>, {"romantic"}, "Itaewon"),
       Place("", <<"P", "3">>, <<"a">>, {"calm", "romantic"}, "Yongsan"),
       Place("", <<"P", "4">>, <<"a">>, {"calm"}, "Yongsan") >>

\* places of SimPlaces that have an embedding
MaxStore == 3

SimEmotionFilters == {<<>>, <<"calm">>, <<"calm", "romantic">>, <<"quiet">>}

SimLocationFilters == {<<>>, <<"Yongsan">>}

SimQueryVectors == {<<1, 0, 0, 0>>, <<0, 0, 1, 0>>}

InitSim ==
    /\ places = SimPlaces
    /\ \E vs \in [1..MaxStore -> SimVectors] :
          embeddings = [i \in 1..MaxStore |-> Embedding(i, vs[i], <<>>)]
    /\ summaries = <<>>
    /\ saved = <<>>
    /\ cache = EmptyCache
    /\ now = 0
    /\ last = Idle
    /\ upserts = <<>>

\* what a caller of a ranker observes
Ranked(op, qv, ef, lf, top_k, r) ==
    [op |-> op, qv |-> qv, ef |-> ef, lf |-> lf, top_k |-> top_k,
     outcome |-> r.outcome, items |-> r.items, base |-> r.base]

\* hybrid_search without a user
SimHybridSearch(qv, ef, lf, top_k) ==
    /\ last = Idle
    /\ last' = Ranked("sim_hybrid", qv, ef, lf, top_k,
                      hybrid_search(RankQuery, NoUser, ef, lf, top_k, places,
                                    embeddings, saved,
                                    [plain |-> qv, personal |-> qv, failAt |-> 0]))
    /\ UNCHANGED <<places, embeddings, summaries, saved, cache, now, upserts>>

\* _batch_similarity_calculation over _get_optimized_embeddings_query
SimBatch(qv, ef, lf, top_k) ==
    /\ last = Idle
    /\ last' = Ranked("sim_batch", qv, ef, lf, top_k,
                      batch_similarity_calculation(
                          qv, FilterEmbeddings(embeddings, places, ef, lf), top_k))
    /\ UNCHANGED <<places, embeddings, summaries, saved, cache, now, upserts>>

\* cosine_similarity(a, b), called once or again with the same arguments
SimCosine(a, b) ==
    /\ \/ last = Idle
       \/ last.op = "cosine" /\ last.a = a /\ last.b = b /\ last.calls = 1
    /\ last' = [op |-> "cosine", a |-> a, b |-> b,
                value |-> cosine_similarity(a, b),
                swapped |-> cosine_similarity(b, a),
                first |-> IF last = Idle THEN cosine_similarity(a, b) ELSE last.first,
                calls |-> IF last = Idle THEN 1 ELSE 2]
    /\ UNCHANGED <<places, embeddings, summaries, saved, cache, now, upserts>>

NextSim ==
    \/ \E qv \in SimQueryVectors, ef \in SimEmotionFilters,
          lf \in SimLocationFilters, top_k \in 1..MaxStore :
          SimHybridSearch(qv, ef, lf, top_k)
    \/ \E qv \in SimQueryVectors, ef \in SimEmotionFilters,
          lf \in SimLocationFilters, top_k \in 1..MaxStore :
          SimBatch(qv, ef, lf, top_k)
    \/ \E a \in CosineArgs, b \in CosineArgs : SimCosine(a, b)
    \/ Deliver

SpecSim == InitSim /\ [][NextSim]_vars

---------------------------------------------------------------------------
(* Properties of the similarity function and the rankers                   *)

\* the last call ranked a candidate set and returned normally
SimRanked == last.op \in {"sim_hybrid", "sim_batch"} /\ last.outcome = "ok"

\* a stored vector the query vector can be compared with
WellFormed(v, qv) == Len(v) = Len(qv) /\ Dot(v, v) # 0

\* every candidate of the last call has a well-formed vector
AllWellFormed ==
    \A i \in 1..Len(embeddings) :
        (\E k \in 1..Len(last.base) : last.base[k][1] = embeddings[i].place)
            => WellFormed(embeddings[i].vector, last.qv)

\* item x is ranked before item y: higher score, or equal score and earlier
\* in the input order of the candidates
Before(x, y) ==
    \/ x[2] > y[2]
    \/ x[2] = y[2] /\ PosOf(last.base, x[1]) < PosOf(last.base, y[1])

\* the candidates a ranker may return: all of them for hybrid_search, those
\* with a positive similarity for _batch_similarity_calculation
Eligible ==
    SelectSeq(last.base, LAMBDA c : last.op = "sim_hybrid" \/ c[2] > 0)

\* C11: results are in descending score order, equal scores in input order,
\* and a candidate left out at the top_k cut-off comes after every returned
\* one in that order, in hybrid_search and in _batch_similarity_calculation
C11_TiesKeepInputOrder ==
    (SimRanked /\ AllWellFormed)
        => /\ \A i, j \in 1..Len(last.items) :
                 i < j => Before(last.items[i], last.items[j])
           /\ \A k \in 1..Len(Eligible) :
                 PosOf(last.items, Eligible[k][1]) = 0
                    => \A i \in 1..Len(last.items) : Before(last.items[i], Eligible[k])

\* the scores of the candidates are strictly distinct and strictly positive
DistinctPositive ==
    /\ \A k \in 1..Len(last.base) : last.base[k][2] > 0 /\ last.base[k][2] # NaN
    /\ \A k, m \in 1..Len(last.base) : k # m => last.base[k][2] # last.base[m][2]

\* C12: ranking N >= K candidates with strictly distinct, strictly positive
\* scores returns exactly K items in strictly descending score order, and
\* they are the K highest-scored candidates
C12_TopK ==
    (SimRanked /\ DistinctPositive /\ Len(last.base) >= last.top_k)
        => /\ Len(last.items) = last.top_k
           /\ \A i \in 1..Len(last.items) :
                 \E k \in 1..Len(last.base) : last.base[k] = last.items[i]
           /\ \A i, j \in 1..Len(last.items) :
                 i < j => last.items[i][2] > last.items[j][2]
           /\ \A k \in 1..Len(last.base) :
                 PosOf(last.items, last.base[k][1]) = 0
                    => \A i \in 1..Len(last.items) : last.items[i][2] > last.base[k][2]

\* C12 witness: the batch pass cut three distinct positive scores down to two
C12_Witness ==
    /\ last.op = "sim_batch"
    /\ last.outcome = "ok"
    /\ DistinctPositive
    /\ Len(last.base) = 3
    /\ last.top_k = 2
    /\ Len(last.items) = 2

\* the places a filter pair admits: those with an embedding that have one of
\* the filtered emotions and, independently, one of the filtered locations
Admitted(ef, lf) ==
    {p \in 1..Len(places) :
        /\ \E i \in 1..Len(embeddings) : embeddings[i].place = p
        /\ ef # <<>> => \E k \in 1..Len(ef) : ef[k] \in places[p].emotions
        /\ lf # <<>> => \E k \in 1..Len(lf) : lf[k] = places[p].location}

\* C13: the candidate set of a ranking call is exactly the set of places with
\* an embedding that the emotion filter and the location filter admit; an
\* empty filter does not restrict
C13_CandidateSet ==
    (SimRanked /\ (last.op = "sim_batch" => last.base # <<>>))
        => {last.base[k][1] : k \in 1..Len(last.base)} = Admitted(last.ef, last.lf)

\* C13 witness: [calm, romantic] admitted three places and the location
\* filter narrowed them to the one place in that location
C13_Witness ==
    /\ SimRanked
    /\ last.ef = <<"calm", "romantic">>
    /\ last.lf = <<"Yongsan">>
    /\ {last.base[k][1] : k \in 1..Len(last.base)} = {3}
    /\ Admitted(last.ef, <<>>) = {1, 2, 3}

\* every component of v is zero
AllZero(v) == \A i \in 1..Len(v) : v[i] = 0

\* C14: cosine_similarity returns exactly 0 when a vector is empty, when the
\* lengths differ or when a vector is all-zero
C14_DegenerateIsZero ==
    (/\ last.op = "cosine"
     /\ \/ last.a = <<>> \/ last.b = <<>>
        \/ Len(last.a) # Len(last.b)
        \/ AllZero(last.a) \/ AllZero(last.b))
        => last.value = 0

\* C14 witness: a non-empty all-zero vector was compared with a vector of the
\* same length
C14_Witness ==
    /\ last.op = "cosine"
    /\ last.a # <<>>
    /\ AllZero(last.a)
    /\ Len(last.a) = Len(last.b)
    /\ ~AllZero(last.b)

\* the ranking of the well-formed candidates alone
WithoutMalformed ==
    batch_similarity_calculation(
        last.qv,
        SelectSeq(FilterEmbeddings(embeddings, places, last.ef, last.lf),
                  LAMBDA e : WellFormed(e.vector, last.qv)),
        last.top_k)

\* exactly one candidate of the last call is malformed, and it is not alone
OneMalformed ==
    LET cands == FilterEmbeddings(embeddings, places, last.ef, last.lf)
    IN /\ Len(cands) >= 2
       /\ Cardinality({i \in 1..Len(cands) :
                         ~WellFormed(cands[i].vector, last.qv)}) = 1

\* C15: a malformed stored embedding does not fail the batch pass, and the
\* well-formed candidates are ranked and returned as if it were absent
C15_MalformedIsSkipped ==
    (last.op = "sim_batch" /\ OneMalformed)
        => /\ last.outcome = "ok"
           /\ last.items = WithoutMalformed.items

\* C16: cosine_similarity(a, b) equals cosine_similarity(b, a), and a repeated
\* call with the same arguments returns the same value
C16_SymmetricAndPure ==
    last.op = "cosine" => last.value = last.swapped /\ last.value = last.first

\* C16 witness: two different vectors with a non-zero similarity, compared a
\* second time
C16_Witness ==
    /\ last.op = "cosine"
    /\ last.a # last.b
    /\ last.value > 0
    /\ last.calls = 2


---------------------------------------------------------------------------
(* Properties of the external path                                         *)

\* the last call computed its results on the external path and the place
\* search answered
ExternalCall ==
    /\ last.op \in {"smart", "ultra"}
    /\ ~last.hit
    /\ ~last.use_rag
    /\ last.searchCalls = 1

\* the returned items that came from the external candidates
IsExternal(item) == item.source \in {"google_detailed", "google_basic"}

\* the item carries what the basic branch gives every candidate
HasDefaultFields(item, category) ==
    /\ item.source = "google_basic"
    /\ item.emotions = get_default_emotions_for_category(category)
    /\ item.summary = SummaryBasic(item.name, item.address, category)

\* C17: a request on the external path makes the details, summary and tag
\* calls for at most 3 candidates; every other external candidate it returns
\* carries the category-default emotion tags and the templated summary, and
\* only a candidate the details call was made for is returned as enriched
C17_AtMostThreeEnriched ==
    ExternalCall =>
        /\ Len(last.ext.enriched) <= 3
        /\ last.ext.detailCalls <= 3
        /\ last.ext.summaryCalls <= 3
        /\ last.ext.tagCalls <= 3
        /\ \A i \in 1..Len(last.items) :
              IsExternal(last.items[i]) =>
                 IF last.items[i].google_place_id \in Range(last.ext.enriched)
                 THEN TRUE
                 ELSE HasDefaultFields(last.items[i], last.req.category)

\* C17 witness: the smart service met four candidates, made the details call
\* for three and returned the fourth with its default fields
C17_Witness ==
    /\ ExternalCall
    /\ last.op = "smart"
    /\ Len(last.ext.cands) = 4
    /\ last.ext.detailCalls = 3
    /\ \E i \in 1..Len(last.items) :
          /\ last.items[i].google_place_id = last.ext.cands[4]
          /\ HasDefaultFields(last.items[i], last.req.category)

\* the latest stored summary of a place
StoredSummary(shop) == SummaryOrTemplate(shop, places, summaries)

\* C18 (as stated): an enriched external candidate is returned and stored with
\* the review summary or, when the summarizer returned nothing, with the
\* template "<name> is located in <neighborhood>", and never with an empty
\* set of emotion tags
C18_EmptyFallsBack ==
    ExternalCall =>
        \A i \in 1..Len(last.items) :
            last.items[i].source = "google_detailed" =>
                /\ last.items[i].summary.kind \in {"card", "located"}
                /\ StoredSummary(last.items[i].shop_id).kind \in {"card", "located"}
                /\ last.items[i].emotions # <<>>
                /\ places[last.items[i].shop_id].emotions # {}

\* C19: a call that raises for one external candidate does not fail the
\* request: the candidates returned are the candidates met without the one
\* left out, in their order; a candidate whose enrichment failed but that is
\* returned carries its default fields, and every other candidate the details
\* call was made for is returned enriched
C19_FailedCandidateIsSkipped ==
    ExternalCall =>
        /\ last.outcome = "ok"
        /\ last.chosenIds =
              SelectSeq(last.ext.cands, LAMBDA g : g \notin Range(last.ext.failed))
        /\ Len(last.ext.failed) + Len(last.ext.defaulted) <= 1
        /\ \A i \in 1..Len(last.items) :
              IsExternal(last.items[i]) =>
                 IF last.items[i].google_place_id \in Range(last.ext.defaulted)
                 THEN HasDefaultFields(last.items[i], last.req.category)
                 ELSE last.items[i].google_place_id \in Range(last.ext.enriched)
                         => last.items[i].source = "google_detailed"

\* C19 witness: a call raised for one candidate and at least two other
\* candidates were returned, one of them one processed after the failure
C19_Witness ==
    /\ ExternalCall
    /\ Len(last.ext.failed) + Len(last.ext.defaulted) = 1
    /\ Len(last.ext.cands) >= 3
    /\ Len(last.chosenIds) >= 2
    /\ \E i \in 1..(Len(last.ext.cands) - 1) :
          /\ last.ext.cands[i] \in Range(last.ext.failed) \cup Range(last.ext.defaulted)
          /\ \E j \in 1..Len(last.items) :
                last.items[j].google_place_id = last.ext.cands[i + 1]


---------------------------------------------------------------------------
(* Concurrent calls of upsert_place_embedding: each call runs in its own   *)
(* transaction, and the steps of different calls interleave                *)

\* calls of upsert_place_embedding in one run
MaxUpserts == 3

ModelNames == {"text-embedding-3-small", "text-embedding-3-large"}

\* embed_text(corpus, model=model_name): the provider's vector
embed_with_model(corpus, model_name) ==
    IF model_name = "text-embedding-3-small" THEN embed_corpus(corpus)
    ELSE embed_corpus(corpus) \o <<0, 0>>

\* the PlaceEmbedding rows of a place
RowsOf(shop, E) == SelectSeq(E, LAMBDA r : r.place = shop)

\* a variant of the store without the unique place key and the row lock
NeverHeld(shop, id, U) == FALSE

\* another transaction holds the row of the place or its unique key: it has
\* read the row with select_for_update, or inserted it, and has not committed
HeldByOther(shop, id, U) ==
    \E k \in 1..Len(U) : k # id /\ U[k].shop = shop /\ U[k].pc \in {"found", "written"}

\* the row a call writes: the three defaults of update_or_create
UpsertRow(call) ==
    [Embedding(call.shop, call.vector, call.corpus) EXCEPT
        !.model_name = call.model_name]

\* a variant of the UPDATE that writes the vector and leaves the other fields
WriteVectorOnly(call, E) ==
    IF call.created THEN Append(E, UpsertRow(call))
    ELSE [i \in 1..Len(E) |->
            IF E[i].place = call.shop THEN [E[i] EXCEPT !.vector = call.vector]
            ELSE E[i]]

\* the committed rows after the call's INSERT or its UPDATE of the row it read
WriteRow(call, E) ==
    IF call.created THEN Append(E, UpsertRow(call))
    ELSE [i \in 1..Len(E) |-> IF E[i].place = call.shop THEN UpsertRow(call) ELSE E[i]]

\* the number of transactions committed so far
Commits(U) == Cardinality({k \in 1..Len(U) : U[k].commitAt > 0})

InitUpsert ==
    /\ places = << Place("G1", <<"S", "b">>, <<"Y", "g">>, {}, "Yongsan"),
                   Place("G2", <<"c">>, <<"Y", "g">>, {}, "Yongsan") >>
    /\ \/ embeddings = <<>>
       \/ embeddings = << Embedding(1, <<1, 0, 0, 0>>, NoSummary) >>
    /\ summaries = <<>>
    /\ saved = <<>>
    /\ cache = EmptyCache
    /\ now = 0
    /\ last = Idle
    /\ upserts = <<>>

\* upsert_place_embedding(place, model_name) is entered: the transaction
\* begins and build_corpus_for_place reads the place
StartUpsert(shop, model_name) ==
    /\ Len(upserts) < MaxUpserts
    /\ upserts' = Append(upserts,
                     [shop |-> shop, model_name |-> model_name, pc |-> "built",
                      corpus |-> build_corpus_for_place(
                                     shop, [places |-> places, embeddings |-> embeddings,
                                            summaries |-> summaries]),
                      vector |-> <<>>, created |-> FALSE, commitAt |-> 0,
                      tx |-> Len(upserts) + 1])
    /\ UNCHANGED <<places, embeddings, summaries, saved, cache, now, last>>

\* vector = embed_text(corpus, model=model_name); when the provider raises the
\* transaction is rolled back
EmbedText(id, fails) ==
    /\ upserts[id].pc = "built"
    /\ upserts' = [upserts EXCEPT
                      ![id].pc = IF fails THEN "failed" ELSE "embedded",
                      ![id].vector = IF fails THEN <<>>
                                     ELSE embed_with_model(upserts[id].corpus,
                                                           upserts[id].model_name)]
    /\ UNCHANGED <<places, embeddings, summaries, saved, cache, now, last>>

\* update_or_create: self.select_for_update().get(place=place)
GetForUpdate(id) ==
    /\ upserts[id].pc = "embedded"
    /\ ~HeldByOther(upserts[id].shop, id, upserts)
    /\ upserts' = [upserts EXCEPT
                      ![id].pc = IF RowsOf(upserts[id].shop, embeddings) # <<>>
                                 THEN "found" ELSE "missing"]
    /\ UNCHANGED <<places, embeddings, summaries, saved, cache, now, last>>

\* update_or_create after DoesNotExist: create(place=place, **defaults); on
\* IntegrityError the row another transaction committed is read instead
Create(id) ==
    /\ upserts[id].pc = "missing"
    /\ ~HeldByOther(upserts[id].shop, id, upserts)
    /\ upserts' = [upserts EXCEPT
                      ![id].pc = IF RowsOf(upserts[id].shop, embeddings) # <<>>
                                 THEN "found" ELSE "written",
                      ![id].created = RowsOf(upserts[id].shop, embeddings) = <<>>]
    /\ UNCHANGED <<places, embeddings, summaries, saved, cache, now, last>>

\* update_or_create on the row it read: setattr for each default, obj.save()
SaveDefaults(id) ==
    /\ upserts[id].pc = "found"
    /\ upserts' = [upserts EXCEPT ![id].pc = "written"]
    /\ UNCHANGED <<places, embeddings, summaries, saved, cache, now, last>>

\* the transaction of the call commits: its write becomes visible
Commit(id) ==
    /\ upserts[id].pc = "written"
    /\ embeddings' = WriteRow(upserts[id], embeddings)
    /\ upserts' = [upserts EXCEPT ![id].pc = "done",
                                  ![id].commitAt = Commits(upserts) + 1]
    /\ UNCHANGED <<places, summaries, saved, cache, now, last>>

\* place.emotions.set(emotion_objs) by a concurrent request
SetEmotions(shop) ==
    /\ places[shop].emotions = {}
    /\ places' = [places EXCEPT ![shop].emotions = {"calm"}]
    /\ UNCHANGED <<embeddings, summaries, saved, cache, now, last, upserts>>

NextUpsert ==
    \/ \E shop \in 1..Len(places), model_name \in ModelNames :
          StartUpsert(shop, model_name)
    \/ \E id \in 1..Len(upserts), fails \in BOOLEAN : EmbedText(id, fails)
    \/ \E id \in 1..Len(upserts) : GetForUpdate(id)
    \/ \E id \in 1..Len(upserts) : Create(id)
    \/ \E id \in 1..Len(upserts) : SaveDefaults(id)
    \/ \E id \in 1..Len(upserts) : Commit(id)
    \/ \E shop \in 1..Len(places) : SetEmotions(shop)

SpecUpsert == InitUpsert /\ [][NextUpsert]_vars

---------------------------------------------------------------------------
(* Properties of upsert_place_embedding                                    *)

\* the calls on a place whose transaction has committed
Committed(shop) ==
    {k \in 1..Len(upserts) : upserts[k].shop = shop /\ upserts[k].commitAt > 0}

\* the call on a place that committed last
LastWriter(shop) ==
    CHOOSE k \in Committed(shop) :
        \A j \in Committed(shop) : upserts[j].commitAt <= upserts[k].commitAt

\* C20: under every interleaving of calls of upsert_place_embedding the store
\* holds at most one embedding row per place, and once a call on the place has
\* committed it holds exactly one, whose vector, source_text and model_name
\* are those of the call that committed last
C20_OneRowLastWriterWins ==
    \A shop \in 1..Len(places) :
        /\ Len(RowsOf(shop, embeddings)) <= 1
        /\ Committed(shop) # {} =>
              RowsOf(shop, embeddings) = <<UpsertRow(upserts[LastWriter(shop)])>>

\* C20 witness: two calls on one place ran interleaved (the one that started
\* later committed first), they wrote different rows, and both are done
C20_Witness ==
    \E i, j \in 1..Len(upserts) :
        /\ i < j
        /\ upserts[i].shop = upserts[j].shop
        /\ upserts[j].commitAt > 0
        /\ upserts[i].commitAt > upserts[j].commitAt
        /\ UpsertRow(upserts[i]) # UpsertRow(upserts[j])
        /\ upserts[i].vector # upserts[j].vector
        /\ upserts[i].corpus # upserts[j].corpus


---------------------------------------------------------------------------
(* Properties of the stored rows across requests                           *)

\* the database of the current state
Database == [places |-> places, embeddings |-> embeddings, summaries |-> summaries]

\* C21 (as stated): after every request each embedding a request has written
\* carries as source_text the corpus built from the current fields of its
\* place (the rows the store started with carry no corpus)
C21_EmbeddingFollowsPlace ==
    \A i \in 1..Len(embeddings) :
        embeddings[i].source_text # <<>> =>
            embeddings[i].source_text =
                build_corpus_for_place(embeddings[i].place, Database)


---------------------------------------------------------------------------
(* The generate_embeddings command: batches of upsert_place_embedding      *)
(* calls, each batch inside one transaction                                *)

\* the queryset places: Place.objects.all(), or the places without embedding
Targets(force_update, P, E) ==
    SelectSeq([k \in 1..Len(P) |-> k],
              LAMBDA k : force_update \/ RowsOf(k, E) = <<>>)

\* every call of the command so far has returned or raised
AllSettled(U) == \A k \in 1..Len(U) : U[k].pc \in {"written", "failed", "done"}

\* the rows after the commit of the batch: the writes of its calls, in order
RECURSIVE CommitAll(_, _, _)
CommitAll(k, U, E) ==
    IF k > Len(U) THEN E
    ELSE CommitAll(k + 1, U, IF U[k].pc = "written" THEN WriteRow(U[k], E) ELSE E)

BatchSizes == {1, 2, 3}

\* embedding rows of the places in withRow, in primary-key order
RowsFor(withRow) ==
    [j \in 1..Cardinality(withRow) |->
        Embedding(SelectSeq(<<1, 2, 3, 4>>, LAMBDA k : k \in withRow)[j],
                  <<1, 0, 0, 0>>, NoSummary)]

\* the command is started with --batch-size and --force-update on a store of
\* four places, some of them embedded
InitBatch ==
    /\ places = [k \in 1..4 |-> Place("", <<"p">>, <<"a">>, {}, "Yongsan")]
    /\ \E withRow \in SUBSET (1..4) : embeddings = RowsFor(withRow)
    /\ summaries = <<>>
    /\ saved = <<>>
    /\ cache = EmptyCache
    /\ now = 0
    /\ \E batch_size \in BatchSizes, force_update \in BOOLEAN :
          last = [op |-> "generate_embeddings", batch_size |-> batch_size,
                  force_update |-> force_update,
                  count |-> Len(Targets(force_update, places, embeddings)),
                  i |-> 0, batch |-> <<>>, k |-> 1, inTx |-> FALSE]
    /\ upserts = <<>>

\* batch = places[i:i + batch_size]; with transaction.atomic():
BatchBegin ==
    /\ ~last.inTx
    /\ last.i < last.count
    /\ last' = [last EXCEPT
                   !.batch = Take(Drop(Targets(last.force_update, places, embeddings),
                                       last.i),
                                  last.batch_size),
                   !.k = 1, !.inTx = TRUE]
    /\ UNCHANGED <<places, embeddings, summaries, saved, cache, now, upserts>>

\* for place in batch: upsert_place_embedding(place) is entered, or the place
\* is skipped because it has an embedding
BatchUpsert ==
    /\ last.inTx
    /\ last.k <= Len(last.batch)
    /\ AllSettled(upserts)
    /\ last' = [last EXCEPT !.k = @ + 1]
    /\ upserts' =
          IF last.force_update \/ RowsOf(last.batch[last.k], embeddings) = <<>>
          THEN Append(upserts,
                  [shop |-> last.batch[last.k], model_name |-> "text-embedding-3-small",
                   pc |-> "built",
                   corpus |-> build_corpus_for_place(
                                  last.batch[last.k],
                                  [places |-> places, embeddings |-> embeddings,
                                   summaries |-> summaries]),
                   vector |-> <<>>, created |-> FALSE, commitAt |-> 0,
                   tx |-> last.i + 1])
          ELSE upserts
    /\ UNCHANGED <<places, embeddings, summaries, saved, cache, now>>

\* the with block ends: the transaction of the batch commits
BatchCommit ==
    /\ last.inTx
    /\ last.k > Len(last.batch)
    /\ AllSettled(upserts)
    /\ embeddings' = CommitAll(1, upserts, embeddings)
    /\ upserts' = [k \in 1..Len(upserts) |->
                      IF upserts[k].pc = "written"
                      THEN [upserts[k] EXCEPT !.pc = "done", !.commitAt = last.i + 1]
                      ELSE upserts[k]]
    /\ last' = [last EXCEPT !.i = @ + last.batch_size, !.batch = <<>>, !.inTx = FALSE]
    /\ UNCHANGED <<places, summaries, saved, cache, now>>

NextBatch ==
    \/ BatchBegin
    \/ BatchUpsert
    \/ \E id \in 1..Len(upserts), fails \in BOOLEAN : EmbedText(id, fails)
    \/ \E id \in 1..Len(upserts) : GetForUpdate(id)
    \/ \E id \in 1..Len(upserts) : Create(id)
    \/ \E id \in 1..Len(upserts) : SaveDefaults(id)
    \/ BatchCommit

SpecBatch == InitBatch /\ [][NextBatch]_vars

\* C22 (as stated): whenever a call waits on the embedding provider (it has
\* built its corpus and not yet received the vector), its transaction holds no
\* row lock and no uncommitted write on the embedding store
C22_NoWritePendingWhileEmbedding ==
    \A k \in 1..Len(upserts) :
        upserts[k].pc = "built" =>
            \A j \in 1..Len(upserts) :
                upserts[j].tx = upserts[k].tx => upserts[j].pc \notin {"found", "written"}


---------------------------------------------------------------------------
(* The caches under a clock: composed results, query embeddings, expanded  *)
(* emotions and user weights                                               *)

\* calls in one run
MaxTtlCalls == 3

\* advances of the clock, each by the timeout of the optimized service
MaxTtlTicks == 7

TtlRequests ==
    {Request(<<"s", "b">>, <<"y", "g">>, <<"calm">>, 1, "cafe", 2),
     Request(<<"z">>, <<"q">>, <<"tasty">>, NoUser, "cafe", 2)}

TtlEnv == Env(<<"G1", "G3">>, 0, "none", FALSE, <<"romantic">>, 0, FALSE, FALSE)

\* the store is filled; the cache is empty, or it holds the query embedding an
\* earlier process wrote at time 0
InitTtl ==
    /\ places = SeedPlaces
    /\ embeddings = [i \in 1..3 |-> Embedding(i, CandidateVectors[i], <<>>)]
    /\ summaries = << [shop |-> 1, summary |-> SummaryCard("S1")] >>
    /\ saved = SeedSaved
    /\ \/ cache = EmptyCache
       \/ cache = [EmptyCache EXCEPT !.embedding =
                      CacheSet(@, RankQuery, <<1, 0, 0, 0>>, 0, OptCacheTimeout * 2)]
    /\ now = 0
    /\ last = Idle
    /\ upserts = <<>>

\* one call of generate_smart_recommendations at the current time
TtlSmart(req) ==
    /\ last = Idle
    /\ now % OptCacheTimeout < MaxTtlCalls
    /\ Respond(req, generate_smart_recommendations(
                        req, [places |-> places, embeddings |-> embeddings,
                              summaries |-> summaries],
                        saved, cache, now, TtlEnv))

\* the cache held an entry under key whose time-to-live had elapsed at t
Elapsed(ns, key, t) == key \in DOMAIN ns /\ ns[key].expires <= t

\* what the caller of hybrid_search_optimized observes of a call at time now
TtlObserved(user, top_k, r) ==
    [op |-> "hybrid_search_optimized", user |-> user, top_k |-> top_k,
     outcome |-> r.outcome, items |-> r.items, embedCalls |-> r.embedCalls,
     hit |-> r.hit, at |-> now,
     elapsed |-> Elapsed(cache.rag_search, <<RankQuery, user, top_k>>, now)]

\* one call of hybrid_search_optimized at the current time
TtlSearchOptimized(user, top_k) ==
    /\ last = Idle
    /\ now % OptCacheTimeout < MaxTtlCalls
    /\ last' = TtlObserved(user, top_k,
                   hybrid_search_optimized(RankQuery, user, <<>>, <<>>, top_k, places,
                                           embeddings, saved, cache, now, GoodProvider))
    /\ cache' = hybrid_search_optimized(RankQuery, user, <<>>, <<>>, top_k, places,
                                        embeddings, saved, cache, now, GoodProvider).cache
    /\ now' = now + 1
    /\ UNCHANGED <<places, embeddings, summaries, saved, upserts>>

\* time passes
TtlTick ==
    /\ last = Idle
    /\ now \div OptCacheTimeout < MaxTtlTicks
    /\ now' = now + OptCacheTimeout
    /\ UNCHANGED <<places, embeddings, summaries, saved, cache, last, upserts>>

NextTtl ==
    \/ \E req \in TtlRequests : TtlSmart(req)
    \/ \E user \in {NoUser, 1}, top_k \in {2} : TtlSearchOptimized(user, top_k)
    \/ TtlTick
    \/ Deliver

SpecTtl == InitTtl /\ [][NextTtl]_vars

\* the entry under key, if any, had not expired at time t
Live(ns, key, t) == key \in DOMAIN ns => ns[key].expires > t

---------------------------------------------------------------------------
(* The user context and the ranker for users with few or no saved places   *)

\* places one user saves in one run
MaxContextSaves == 4

\* six places in four neighbourhoods, one of them with six emotions; the
\* first five are embedded, with similarities 0.882, 0.5, 0.6, 1.0 and 0.9
\* to the query of the ranking calls
ContextPlaces ==
    << Place("", <<"A">>, <<"a">>, AllEmotions \cup {"lively"}, "Itaewon"),
       Place("", <<"B">>, <<"a">>, {"calm"}, "Yongsan"),
       Place("", <<"C">>, <<"a">>, {"calm", "cozy"}, "Hongdae"),
       Place("", <<"D">>, <<"a">>, {"tasty"}, "Seongsu"),
       Place("", <<"E">>, <<"a">>, {}, NoLocation),
       Place("", <<"F">>, <<"a">>, {"calm", "lively"}, "Itaewon") >>

InitContext ==
    /\ places = ContextPlaces
    /\ embeddings = << Embedding(1, <<15, 8, 0, 0>>, <<>>), Embedding(2, <<1, 1, 1, 1>>, <<>>),
                       Embedding(3, <<3, 0, 4, 0>>, <<>>), Embedding(4, <<1, 0, 0, 0>>, <<>>),
                       Embedding(5, <<9, 3, 3, 1>>, <<>>) >>
    /\ summaries = <<>>
    /\ saved = <<>>
    /\ cache = EmptyCache
    /\ now = 0
    /\ last = Idle
    /\ upserts = <<>>

\* user 1 saves a place not saved before
ContextSave(p, rec) ==
    /\ Len(saved) < MaxContextSaves
    /\ \A i \in 1..Len(saved) : saved[i].shop # p
    /\ SavePlace(1, p, rec)

\* one call of build_user_context(user)
BuildUserContext(user) ==
    /\ last = Idle
    /\ last' = [op |-> "build_user_context", user |-> user, outcome |-> "ok",
                context |-> build_user_context(user, saved, places)]
    /\ UNCHANGED <<places, embeddings, summaries, saved, cache, now, upserts>>

\* providers that answer, with the same or another vector for a rewritten query
ContextProviders ==
    {[plain |-> <<1, 0, 0, 0>>, personal |-> <<1, 0, 0, 0>>, failAt |-> 0],
     [plain |-> <<1, 0, 0, 0>>, personal |-> <<0, 1, 0, 0>>, failAt |-> 0]}

\* what the caller of hybrid_search observes, with the arguments of the call
ContextObserved(user, ef, lf, top_k, prov, r) ==
    [op |-> "hybrid_search", user |-> user, ef |-> ef, lf |-> lf, top_k |-> top_k,
     prov |-> prov, outcome |-> r.outcome, items |-> r.items, incs |-> r.incs]

\* one call of hybrid_search(query, user, emotion_filters, location_filters, top_k)
ContextSearch(user, ef, lf, top_k, prov) ==
    /\ last = Idle
    /\ last' = ContextObserved(user, ef, lf, top_k, prov,
                   hybrid_search(RankQuery, user, ef, lf, top_k, places, embeddings,
                                 saved, prov))
    /\ UNCHANGED <<places, embeddings, summaries, saved, cache, now, upserts>>

\* a user id that no User row has
UnknownUser == 3

\* the provider of ContextProviders that answers alike, and one that is down
PostProviders ==
    {[plain |-> <<1, 0, 0, 0>>, personal |-> <<1, 0, 0, 0>>, failAt |-> 0],
     [plain |-> <<1, 0, 0, 0>>, personal |-> <<1, 0, 0, 0>>, failAt |-> 1]}

\* user = User.objects.get(id=user_id), except User.DoesNotExist: pass
LookupOrNone(user_id) == IF user_id \in Users THEN user_id ELSE NoUser

\* the Response of RAGSearchView.post after get_rag_recommendations
PostResponse(user_id, r) ==
    [op |-> "RAGSearchView.post", user_id |-> user_id, outcome |-> "ok",
     status |-> IF r.outcome = "ok" THEN 200 ELSE 500,
     results |-> [i \in 1..Len(r.items) |-> r.items[i][1]]]

\* RAGSearchView.post: one request of the natural-language search endpoint
RagSearchPost(hasQuery, user_id, ef, lf, top_k, prov) ==
    /\ last = Idle
    /\ last' = IF ~hasQuery
               THEN [op |-> "RAGSearchView.post", user_id |-> user_id, outcome |-> "ok",
                     status |-> 400, results |-> <<>>]
               ELSE PostResponse(user_id,
                        hybrid_search(RankQuery, LookupOrNone(user_id), ef, lf, top_k,
                                      places, embeddings, saved, prov))
    /\ UNCHANGED <<places, embeddings, summaries, saved, cache, now, upserts>>

\* the vector of the query of a ranking call
ContextQueryVector == <<1, 0, 0, 0>>

\* what the caller of hybrid_search_optimized observes once the query vector
\* is at hand; cold tells that the user's weights were not in the cache
RankedObserved(user, ef, lf, top_k, cold, batch, w) ==
    [op |-> "optimized_ranking", user |-> user, ef |-> ef, lf |-> lf,
     top_k |-> top_k, cold |-> cold, outcome |-> batch.outcome,
     items |-> IF user # NoUser THEN w.items ELSE batch.items]

\* steps 3 to 5 of hybrid_search_optimized for the vector of the query
ContextRankOptimized(user, ef, lf, top_k) ==
    /\ last = Idle
    /\ LET batch == batch_similarity_calculation(ContextQueryVector,
                        FilterEmbeddings(embeddings, places, ef, lf), top_k)
           w == apply_cached_user_weights(user, batch.items, cache, now, saved, places)
       IN /\ last' = RankedObserved(user, ef, lf, top_k,
                                    ~CacheHit(cache.user_weights, user, now), batch, w)
          /\ cache' = IF user # NoUser /\ batch.outcome = "ok" THEN w.cache ELSE cache
    /\ UNCHANGED <<places, embeddings, summaries, saved, now, upserts>>

NextContext ==
    \/ \E p \in 1..Len(places) : ContextSave(p, 1)
    \/ \E user \in {NoUser} \cup Users, f \in RankFilters, top_k \in {2, MaxTopK} :
          ContextRankOptimized(user, f[1], f[2], top_k)
    \/ \E hasQuery \in BOOLEAN, user_id \in {NoUser, UnknownUser} \cup Users,
          f \in RankFilters, prov \in PostProviders :
          RagSearchPost(hasQuery, user_id, f[1], f[2], MaxTopK, prov)
    \/ \E user \in Users : BuildUserContext(user)
    \/ \E user \in Users, f \in RankFilters, top_k \in {2, MaxTopK},
          prov \in ContextProviders :
          ContextSearch(user, f[1], f[2], top_k, prov)
    \/ Deliver

SpecContext == InitContext /\ [][NextContext]_vars

---------------------------------------------------------------------------
(* Properties of the user context                                          *)

\* the saved places of a user that carry the emotion e
SavesWithEmotion(user, e) ==
    Cardinality({i \in 1..Len(saved) :
                    saved[i].user = user /\ e \in places[saved[i].shop].emotions})

\* the saved places of a user in the neighbourhood l
SavesAtLocation(user, l) ==
    Cardinality({i \in 1..Len(saved) :
                    saved[i].user = user /\ places[saved[i].shop].location = l})

ContextLocations == {"Itaewon", "Yongsan", "Hongdae", "Seongsu"}

\* pairs is the list of the n keys with the highest counts, by count descending
IsTopCounts(pairs, n, keys, Count(_)) ==
    /\ Len(pairs) = Min(n, Cardinality({k \in keys : Count(k) > 0}))
    /\ \A i \in 1..Len(pairs) :
          /\ pairs[i][1] \in keys
          /\ pairs[i][2] = Count(pairs[i][1])
          /\ pairs[i][2] > 0
    /\ \A i, j \in 1..Len(pairs) :
          /\ (i # j) => pairs[i][1] # pairs[j][1]
          /\ (i < j) => pairs[i][2] >= pairs[j][2]
    /\ \A k \in keys :
          (\A i \in 1..Len(pairs) : pairs[i][1] # k)
             => \A i \in 1..Len(pairs) : pairs[i][2] >= Count(k)

\* C24: build_user_context returns the emotion names of the user's saved places
\* with their counts, by count descending, cut to the 5 highest, the location
\* names likewise cut to the 3 highest, and one saved_places entry per saved
\* place; for a user without saved places the three lists are empty
C24_UserContext ==
    last.op = "build_user_context" =>
        /\ last.outcome = "ok"
        /\ IsTopCounts(last.context.preferred_emotions, 5, Range(EmotionRows),
                       LAMBDA e : SavesWithEmotion(last.user, e))
        /\ IsTopCounts(last.context.location_preferences, 3, ContextLocations,
                       LAMBDA l : SavesAtLocation(last.user, l))
        /\ last.context.saved_places =
              [i \in 1..Len(SavedOf(last.user, saved)) |->
                  SavedOf(last.user, saved)[i].shop]
        /\ SavedOf(last.user, saved) = <<>> =>
              /\ last.context.preferred_emotions = <<>>
              /\ last.context.location_preferences = <<>>
              /\ last.context.saved_places = <<>>

\* C24 witness: the user saved places with six emotions in four
\* neighbourhoods, and the context holds five emotions and three locations
C24_Witness ==
    /\ last.op = "build_user_context"
    /\ Cardinality({e \in Range(EmotionRows) : SavesWithEmotion(last.user, e) > 0}) = 6
    /\ Cardinality({l \in ContextLocations : SavesAtLocation(last.user, l) > 0}) = 4
    /\ Len(last.context.preferred_emotions) = 5
    /\ Len(last.context.location_preferences) = 3
    /\ last.context.preferred_emotions[1][2] > last.context.preferred_emotions[5][2]

\* C25: for a user without saved places hybrid_search does not raise and
\* returns the places, scores and order of hybrid_search without a user on the
\* same store, with no weight added
C25_EmptyUserIsAnonymous ==
    (/\ last.op = "hybrid_search"
     /\ last.user # NoUser
     /\ SavedOf(last.user, saved) = <<>>)
        => /\ last.outcome = "ok"
           /\ \A i \in 1..Len(last.incs) : last.incs[i] = <<>>
           /\ last.items = hybrid_search(RankQuery, NoUser, last.ef, last.lf,
                                         last.top_k, places, embeddings, saved,
                                         last.prov).items

\* C25 witness: a user without saved places searched, the provider would have
\* answered a rewritten query with another vector, and places were returned
C25_Witness ==
    /\ last.op = "hybrid_search"
    /\ last.user # NoUser
    /\ SavedOf(last.user, saved) = <<>>
    /\ last.prov.plain # last.prov.personal
    /\ Len(last.items) >= 2
    /\ saved # <<>>


\* C26: a request of the search endpoint that names a user id without a User
\* row is answered with status 404, never as the request of no user
C26_UnknownUserIsNotFound ==
    (/\ last.op = "RAGSearchView.post"
     /\ last.status # 400
     /\ last.user_id \notin Users \cup {NoUser})
        => last.status = 404


---------------------------------------------------------------------------
(* Properties of the lists the cached services return                      *)

\* C27: a list returned by generate_smart_recommendations for a user holds no
\* place that the user has saved with rec = 1 at the time of the call, on a
\* cache miss and on a cache hit alike
C27_NoSavedPlaceReturned ==
    (last.op = "smart" /\ last.req.user # NoUser)
        => \A i \in 1..Len(last.items) :
              last.items[i].shop_id \notin SavedShopIds(last.req.user, saved)

\* C28: generate_smart_recommendations returns at most top_k items for the
\* top_k of the current call, after any earlier calls with other top_k values
C28_AtMostTopK ==
    last.op = "smart" => Len(last.items) <= last.req.top_k


\* the places of a ranked list, in order
PlacesOf(items) == [i \in 1..Len(items) |-> items[i][1]]

\* C29: from the same query vector, store, filters, user and top_k, and with
\* nothing cached, hybrid_search_optimized returns the places hybrid_search
\* returns, in the same order
C29_OptimizedIsSameRanker ==
    (last.op = "optimized_ranking" /\ last.cold)
        => /\ last.outcome = "ok"
           /\ PlacesOf(last.items) =
                 PlacesOf(hybrid_search(RankQuery, last.user, last.ef, last.lf,
                                        last.top_k, places, embeddings, saved,
                                        [plain |-> ContextQueryVector,
                                         personal |-> ContextQueryVector,
                                         failAt |-> 0]).items)


---------------------------------------------------------------------------
(* Properties of a stored place that is discovered again                   *)

\* C30: a stored place that has a rating and place types from its enrichment
\* keeps a rating and place types in every later request, whatever its
\* position among the candidates, and no two places share a google_place_id
C30_EnrichedFieldsKept ==
    [][/\ \A i \in 1..Len(places) :
             (places[i].rating # 0 /\ places[i].types # {})
                => /\ i <= Len(places')
                   /\ places'[i].gid = places[i].gid
                   /\ places'[i].rating # 0
                   /\ places'[i].types # {}
       /\ \A i, j \in 1..Len(places') :
             (places'[i].gid = places'[j].gid /\ places'[i].gid # "") => i = j]_vars

====
